---- MODULE Spec2Model ----
(***************************************************************************)
(* A model of the SparkSQL formatter: the Tokenizer (regex cascade), the   *)
(* Indentation stack with its flags, the InlineBlock lookahead, Params and *)
(* the Formatter's single pass over the token sequence.                    *)
(*                                                                         *)
(* Text is a sequence of one-character strings, so that lexing, trimming,  *)
(* lower-casing and concatenation are computed character by character.     *)
(***************************************************************************)
EXTENDS Integers, Sequences, FiniteSets, TLC

VARIABLES
    pc,           \* where the process is: idle, tokenize, format, done, failed
    callNo,       \* number of format calls started in this process
    origin,       \* how the caller obtained the query of the current call
    supplied,     \* the parameter source the caller holds for the current call
    tokenizer,    \* the module-level memoized Tokenizer: none, or an instance
    input,        \* Tokenizer.tokenize: the input not yet consumed
    token,        \* Tokenizer.tokenize: the token of the last iteration
    tokens,       \* Tokenizer.tokenize: the tokens pushed so far
    formatter,    \* the Formatter object of the current call
    index,        \* Formatter.index + 1: number of tokens forEach has visited
    before,       \* the Formatter as it was when the last callback began
    rule,         \* the branch of the callback the last visited token took
    query,        \* the argument of the current format call
    result,       \* the string the last finished call returned
    firstQuery,   \* the argument of the first call of the process
    firstResult,  \* the result of the first call of the process
    paramsObject, \* a Params object exercised on its own
    paramsBefore, \* that object as it was when the last get began
    asked,        \* the token last passed to Params.get
    got,          \* the value Params.get last returned
    indentationObject, \* an Indentation object used on its own
    indentationBefore, \* that object as it was when the last method began
    called,       \* the method of Indentation last called
    returned,     \* what that method returned
    armed         \* per one-shot flag: was it set since it was last read,
                  \* now and when the last method began

vars == << pc, callNo, origin, supplied, tokenizer, input, token, tokens,
           formatter, index, before, rule, query, result, firstQuery, firstResult,
           paramsObject, paramsBefore, asked, got,
                    indentationObject, indentationBefore, called, returned, armed >>

----------------------------------------------------------------------------
(* Characters and the classes the regular expressions use.                 *)

LowerLetters ==
    << "a", "b", "c", "d", "e", "f", "g", "h", "i", "j", "k", "l", "m",
       "n", "o", "p", "q", "r", "s", "t", "u", "v", "w", "x", "y", "z" >>

UpperLetters ==
    << "A", "B", "C", "D", "E", "F", "G", "H", "I", "J", "K", "L", "M",
       "N", "O", "P", "Q", "R", "S", "T", "U", "V", "W", "X", "Y", "Z" >>

Range(f) == { f[i] : i \in DOMAIN f }

Digits == { "0", "1", "2", "3", "4", "5", "6", "7", "8", "9" }

HexDigits == Digits \cup { "a", "b", "c", "d", "e", "f", "A", "B", "C", "D", "E", "F" }

\* \w
WordChars == Range(LowerLetters) \cup Range(UpperLetters) \cup Digits \cup { "_" }

\* \s (the ASCII part)
WhitespaceChars == { " ", "\n", "\t", "\r", "\f" }

\* the characters "." does not match
LineTerminators == { "\n", "\r" }

LowerOf == [ c \in Range(UpperLetters) |->
               LowerLetters[CHOOSE i \in 1..26 : UpperLetters[i] = c] ]

LowerChar(c) == IF c \in DOMAIN LowerOf THEN LowerOf[c] ELSE c

\* String.prototype.toLowerCase
toLowerCase(s) == [ i \in 1..Len(s) |-> LowerChar(s[i]) ]

\* the character at position i (1-based), "" past either end
At(s, i) == IF i >= 1 /\ i <= Len(s) THEN s[i] ELSE ""

IsWordAt(s, i) == At(s, i) \in WordChars

\* \b between positions i and i+1
WordBoundary(s, i) == IsWordAt(s, i) # IsWordAt(s, i + 1)

\* how many characters from position i on lie in class C (a greedy C*)
RECURSIVE SpanIn(_, _, _)
SpanIn(s, i, C) ==
    IF i <= Len(s) /\ s[i] \in C THEN 1 + SpanIn(s, i + 1, C) ELSE 0

\* how many characters from position i on lie outside class C (a greedy [^C]*)
RECURSIVE SpanNotIn(_, _, _)
SpanNotIn(s, i, C) ==
    IF i <= Len(s) /\ s[i] \notin C THEN 1 + SpanNotIn(s, i + 1, C) ELSE 0

\* s from position i to its end (String.prototype.substring(i - 1))
substring(s, i) == SubSeq(s, i, Len(s))

\* whether p occurs in s at position i
StartsWithAt(s, i, p) ==
    /\ i + Len(p) - 1 <= Len(s)
    /\ \A k \in 1..Len(p) : s[i + k - 1] = p[k]

\* the grave accent character, written by name: a one-character atom of text
Backtick == "grave"

\* a regular expression that did not match
NoMatch == 0 - 1

----------------------------------------------------------------------------
(* The keyword tables of the SparkSQL dialect.                             *)

reservedWords ==
  << <<"a", "s">>,
     <<"a", "s", "c">>,
     <<"a", "u", "t", "o", "_", "i", "n", "c", "r", "e", "m", "e", "n", "t">>,
     <<"b", "e", "t", "w", "e", "e", "n">>,
     <<"c", "a", "s", "e">>,
     <<"c", "h", "a", "r", "a", "c", "t", "e", "r", " ", "s", "e", "t">>,
     <<"c", "h", "a", "r", "s", "e", "t">>,
     <<"c", "o", "m", "m", "e", "n", "t">>,
     <<"c", "o", "n", "t", "a", "i", "n", "s">>,
     <<"c", "u", "r", "r", "e", "n", "t", "_", "t", "i", "m", "e", "s", "t", "a", "m", "p">>,
     <<"c", "u", "r", "r", "e", "n", "t", "_", "d", "a", "t", "e">>,
     <<"c", "o", "u", "n", "t">>,
     <<"c", "o", "a", "l", "e", "s", "c", "e">>,
     <<"d", "a", "t", "a", "b", "a", "s", "e">>,
     <<"d", "a", "t", "a", "b", "a", "s", "e", "s">>,
     <<"d", "e", "f", "a", "u", "l", "t">>,
     <<"d", "e", "l", "e", "t", "e">>,
     <<"d", "e", "s", "c">>,
     <<"d", "e", "s", "c", "r", "i", "b", "e">>,
     <<"d", "i", "s", "t", "i", "n", "c", "t">>,
     <<"e", "l", "s", "e">>,
     <<"e", "n", "d">>,
     <<"e", "n", "g", "i", "n", "e">>,
     <<"e", "x", "i", "s", "t", "s">>,
     <<"e", "x", "p", "l", "a", "i", "n">>,
     <<"f", "i", "e", "l", "d", "s">>,
     <<"f", "i", "l", "e">>,
     <<"f", "o", "r", "e", "i", "g", "n">>,
     <<"f", "u", "l", "l">>,
     <<"f", "u", "n", "c", "t", "i", "o", "n">>,
     <<"g", "l", "o", "b", "a", "l">>,
     <<"g", "r", "a", "n", "t">>,
     <<"g", "r", "a", "n", "t", "s">>,
     <<"g", "r", "o", "u", "p", "_", "c", "o", "n", "c", "a", "t">>,
     <<"h", "o", "u", "r">>,
     <<"i", "d", "e", "n", "t", "i", "f", "i", "e", "d">>,
     <<"i", "f">>,
     <<"i", "f", "n", "u", "l", "l">>,
     <<"i", "n">>,
     <<"i", "n", "d", "e", "x">>,
     <<"i", "n", "d", "e", "x", "e", "s">>,
     <<"i", "n", "f", "i", "l", "e">>,
     <<"i", "n", "s", "e", "r", "t">>,
     <<"i", "n", "t", "e", "r", "v", "a", "l">>,
     <<"i", "n", "t", "o">>,
     <<"i", "n", "v", "o", "k", "e", "r">>,
     <<"i", "s">>,
     <<"k", "e", "y">>,
     <<"k", "e", "y", "s">>,
     <<"k", "i", "l", "l">>,
     <<"l", "i", "k", "e">>,
     <<"m", "a", "t", "c", "h">>,
     <<"m", "i", "n", "u", "t", "e">>,
     <<"m", "i", "n">>,
     <<"m", "a", "x">>,
     <<"m", "o", "d", "i", "f", "y">>,
     <<"m", "o", "n", "t", "h">>,
     <<"n", "a", "m", "e", "s">>,
     <<"n", "o", "w", "(", ")">>,
     <<"n", "u", "l", "l">>,
     <<"p", "a", "r", "t", "i", "t", "i", "o", "n">>,
     <<"p", "a", "r", "t", "i", "t", "i", "o", "n", "s">>,
     <<"r", "e", "g", "e", "x", "p">>,
     <<"r", "e", "n", "a", "m", "e">>,
     <<"r", "e", "p", "l", "a", "c", "e">>,
     <<"r", "e", "p", "l", "i", "c", "a", "t", "i", "o", "n">>,
     <<"r", "e", "s", "e", "t">>,
     <<"r", "l", "i", "k", "e">>,
     <<"r", "o", "w">>,
     <<"r", "o", "w", "s">>,
     <<"r", "o", "w", "_", "f", "o", "r", "m", "a", "t">>,
     <<"s", "e", "c", "o", "n", "d">>,
     <<"s", "t", "o", "r", "a", "g", "e">>,
     <<"s", "t", "r", "i", "n", "g">>,
     <<"s", "u", "m">>,
     <<"t", "a", "b", "l", "e">>,
     <<"t", "a", "b", "l", "e", "s">>,
     <<"t", "e", "m", "p", "o", "r", "a", "r", "y">>,
     <<"t", "e", "r", "m", "i", "n", "a", "t", "e", "d">>,
     <<"t", "h", "e", "n">>,
     <<"t", "o">>,
     <<"t", "r", "u", "e">>,
     <<"t", "r", "u", "n", "c", "a", "t", "e">>,
     <<"t", "y", "p", "e">>,
     <<"t", "y", "p", "e", "s">>,
     <<"u", "n", "c", "o", "m", "m", "i", "t", "t", "e", "d">>,
     <<"u", "n", "i", "q", "u", "e">>,
     <<"u", "n", "s", "i", "g", "n", "e", "d">>,
     <<"u", "s", "a", "g", "e">>,
     <<"u", "s", "e">>,
     <<"u", "s", "i", "n", "g">>,
     <<"v", "a", "r", "i", "a", "b", "l", "e", "s">>,
     <<"v", "i", "e", "w">>,
     <<"w", "h", "e", "n">>,
     <<"w", "i", "t", "h">> >>

reservedToplevelWords ==
  << <<"d", "e", "l", "e", "t", "e", " ", "f", "r", "o", "m">>,
     <<"e", "x", "c", "e", "p", "t">>,
     <<"g", "r", "o", "u", "p", " ", "b", "y">>,
     <<"o", "r", "d", "e", "r", " ", "b", "y">>,
     <<"h", "a", "v", "i", "n", "g">>,
     <<"i", "n", "t", "e", "r", "s", "e", "c", "t">>,
     <<"m", "o", "d", "i", "f", "y">>,
     <<"s", "e", "l", "e", "c", "t">>,
     <<"u", "p", "d", "a", "t", "e">>,
     <<"v", "a", "l", "u", "e", "s">> >>

unionWords ==
  << <<"u", "n", "i", "o", "n", " ", "a", "l", "l">>,
     <<"u", "n", "i", "o", "n">> >>

reservedToplevelInLineWords ==
  << <<"u", "s", "e">>,
     <<"d", "r", "o", "p", " ", "t", "a", "b", "l", "e">>,
     <<"c", "r", "e", "a", "t", "e", " ", "t", "a", "b", "l", "e">>,
     <<"f", "r", "o", "m">>,
     <<"w", "h", "e", "r", "e">>,
     <<"l", "i", "m", "i", "t">>,
     <<"c", "r", "e", "a", "t", "e">>,
     <<"i", "n", "s", "e", "r", "t", " ", "o", "v", "e", "r", "w", "r", "i", "t", "e">>,
     <<"i", "n", "s", "e", "r", "t", " ", "i", "n", "t", "o">>,
     <<"i", "n", "n", "e", "r", " ", "j", "o", "i", "n">>,
     <<"f", "u", "l", "l", " ", "j", "o", "i", "n">>,
     <<"f", "u", "l", "l", " ", "o", "u", "t", "e", "r", " ", "j", "o", "i", "n">>,
     <<"j", "o", "i", "n">>,
     <<"l", "e", "f", "t", " ", "j", "o", "i", "n">>,
     <<"l", "e", "f", "t", " ", "o", "u", "t", "e", "r", " ", "j", "o", "i", "n">>,
     <<"o", "u", "t", "e", "r", " ", "j", "o", "i", "n">>,
     <<"r", "i", "g", "h", "t", " ", "j", "o", "i", "n">>,
     <<"r", "i", "g", "h", "t", " ", "o", "u", "t", "e", "r", " ", "j", "o", "i", "n">>,
     <<"o", "n">> >>

reservedNewlineWords ==
  << <<"a", "n", "d">>,
     <<"o", "r">>,
     <<"p", "a", "r", "t", "i", "t", "i", "o", "n", "e", "d", " ", "b", "y">>,
     <<"r", "o", "w", " ", "f", "o", "r", "m", "a", "t">>,
     <<"f", "i", "e", "l", "d", "s", " ", "t", "e", "r", "m", "i", "n", "a", "t", "e", "d", " ", "b", "y">>,
     <<"l", "i", "n", "e", "s", " ", "t", "e", "r", "m", "i", "n", "a", "t", "e", "d", " ", "b", "y">>,
     <<"s", "t", "o", "r", "e", "d", " ", "a", "s">>,
     <<"t", "b", "l", "p", "r", "o", "p", "e", "r", "t", "i", "e", "s">>,
     <<"a", "l", "t", "e", "r", " ", "t", "a", "b", "l", "e">>,
     <<"a", "d", "d", " ", "j", "a", "r">>,
     <<"a", "f", "t", "e", "r">>,
     <<"a", "l", "t", "e", "r", " ", "c", "o", "l", "u", "m", "n">>,
     <<"c", "r", "o", "s", "s", " ", "a", "p", "p", "l", "y">>,
     <<"c", "r", "o", "s", "s", " ", "j", "o", "i", "n">>,
     <<"s", "e", "t">>,
     <<"w", "h", "e", "n">>,
     <<"e", "l", "s", "e">> >>


stringTypes == << "dq", "N", "sq", "bt", "br" >>

openParens == << <<"(">>, <<"C", "A", "S", "E">> >>

closeParens == << <<")">>, <<"E", "N", "D">> >>

lineCommentTypes == << <<"#">>, <<"-", "-">> >>

----------------------------------------------------------------------------
(* Tokenizer: the regular expressions.  Each operator gives the length of  *)
(* matches[1] for the regular expression applied to s, or NoMatch.         *)

\* /^(\s+)/
WHITESPACE_REGEX(s) ==
    LET n == SpanIn(s, 1, WhitespaceChars) IN IF n >= 1 THEN n ELSE NoMatch

\* /^((-\s*)?[0-9]+(\.[0-9]+)?|0x[0-9a-fA-F]+|0b[01]+)\b/
NUMBER_REGEX(s) ==
    LET sign == IF At(s, 1) = "-" THEN 1 + SpanIn(s, 2, WhitespaceChars) ELSE 0
        int  == SpanIn(s, sign + 1, Digits)
        frac == IF At(s, sign + int + 1) = "."
                THEN SpanIn(s, sign + int + 2, Digits) ELSE 0
        dec  == IF frac >= 1 /\ ~IsWordAt(s, sign + int + 1 + frac + 1)
                THEN sign + int + 1 + frac ELSE sign + int
        hex  == SpanIn(s, 3, HexDigits)
        bin  == SpanIn(s, 3, { "0", "1" })
    IN  IF int >= 1 /\ WordBoundary(s, dec) THEN dec
        ELSE IF StartsWithAt(s, 1, <<"0", "x">>) /\ hex >= 1 /\ WordBoundary(s, 2 + hex)
             THEN 2 + hex
        ELSE IF StartsWithAt(s, 1, <<"0", "b">>) /\ bin >= 1 /\ WordBoundary(s, 2 + bin)
             THEN 2 + bin
        ELSE NoMatch

OperatorAlternatives ==
    << <<"!", "=">>, <<"<", ">">>, <<"=", "=">>, <<"<", "=">>, <<">", "=">>,
       <<"!", "<">>, <<"!", ">">>, <<"|", "|">>, <<":", ":">>,
       <<"-", ">", ">">>, <<"-", ">">>, <<"~", "~", "*">>, <<"~", "~">>,
       <<"!", "~", "~", "*">>, <<"!", "~", "~">>, <<"~", "*">>,
       <<"!", "~", "*">>, <<"!", "~">> >>

\* a faulty operator pattern: any two characters, or the last one
OperatorAnyTwo(s) ==
    IF Len(s) >= 2 THEN 2 ELSE IF Len(s) = 1 THEN 1 ELSE NoMatch

\* /^(!=|<>|==|<=|>=|!<|!>|\|\||::|->>|->|~~\*|~~|!~~\*|!~~|~\*|!~\*|!~|.)/
OPERATOR_REGEX(s) ==
    LET hits == { k \in DOMAIN OperatorAlternatives :
                    StartsWithAt(s, 1, OperatorAlternatives[k]) }
    IN  IF hits # {}
        THEN Len(OperatorAlternatives[CHOOSE k \in hits : \A j \in hits : k <= j])
        ELSE IF Len(s) >= 1 /\ s[1] \notin LineTerminators THEN 1
        ELSE NoMatch

\* /^(\/\*[^]*?(?:\*\/|$))/ : the position of the first "*/" at or after i, or 0
RECURSIVE FirstCommentEnd(_, _)
FirstCommentEnd(s, i) ==
    IF i + 1 > Len(s) THEN 0
    ELSE IF s[i] = "*" /\ s[i + 1] = "/" THEN i
    ELSE FirstCommentEnd(s, i + 1)

BLOCK_COMMENT_REGEX(s) ==
    IF ~StartsWithAt(s, 1, <<"/", "*">>) THEN NoMatch
    ELSE LET e == FirstCommentEnd(s, 3) IN IF e = 0 THEN Len(s) ELSE e + 1

\* createLineCommentRegex: ^((?:#|--).*?(?:\n|$))
LINE_COMMENT_REGEX(s) ==
    LET hits == { k \in DOMAIN lineCommentTypes :
                    StartsWithAt(s, 1, lineCommentTypes[k]) }
        m    == Len(lineCommentTypes[CHOOSE k \in hits : \A j \in hits : k <= j])
        stop == m + SpanNotIn(s, m + 1, LineTerminators) + 1
    IN  IF hits = {} THEN NoMatch
        ELSE IF stop > Len(s) THEN Len(s)
        ELSE IF s[stop] = "\n" THEN stop
        ELSE NoMatch

\* one keyword of a reserved-word pattern from position k of the keyword and
\* position i of s: " " was replaced by \s+, "(" and ")" are an (empty) group,
\* any other character matches itself, case-insensitively (flag i).
\* Gives the position after the match, or 0.
RECURSIVE KeywordEnd(_, _, _, _)
KeywordEnd(kw, k, s, i) ==
    IF k > Len(kw) THEN i
    ELSE IF kw[k] = " "
         THEN LET n == SpanIn(s, i, WhitespaceChars)
              IN  IF n >= 1 THEN KeywordEnd(kw, k + 1, s, i + n) ELSE 0
    ELSE IF kw[k] \in { "(", ")" } THEN KeywordEnd(kw, k + 1, s, i)
    ELSE IF i <= Len(s) /\ LowerChar(s[i]) = LowerChar(kw[k])
         THEN KeywordEnd(kw, k + 1, s, i + 1)
    ELSE 0

\* whether alternative k of a reserved-word pattern matches at the front of s
\* and is followed by a word boundary
ReservedWordMatches(reserved, k, s) ==
    LET e == KeywordEnd(reserved[k], 1, s, 1)
    IN  e >= 1 /\ WordBoundary(s, e - 1)

\* createReservedWordRegex: ^(w1|w2|...)\b with flag i; the first alternative
\* that matches and is followed by a word boundary wins
createReservedWordRegex(reserved, s) ==
    LET hits == { k \in DOMAIN reserved : ReservedWordMatches(reserved, k, s) }
        first == CHOOSE k \in hits : \A j \in hits : k <= j
    IN  IF hits = {} THEN NoMatch
        ELSE KeywordEnd(reserved[first], 1, s, 1) - 1

\* createWordRegex with no specialWordChars: ^([\w]+)
WORD_REGEX(s) ==
    LET n == SpanIn(s, 1, WordChars) IN IF n >= 1 THEN n ELSE NoMatch

\* escapeParen and createParenRegex: ^(p1|p2) with flag i; a one-character
\* paren is escaped, a longer one is \bword\b
ParenMatches(p, s) ==
    IF Len(p) = 1 THEN StartsWithAt(s, 1, p)
    ELSE LET e == KeywordEnd(p, 1, s, 1)
         IN  WordBoundary(s, 0) /\ e >= 1 /\ WordBoundary(s, e - 1)

createParenRegex(parens, s) ==
    LET hits == { k \in DOMAIN parens : ParenMatches(parens[k], s) }
        first == CHOOSE k \in hits : \A j \in hits : k <= j
    IN  IF hits = {} THEN NoMatch ELSE Len(parens[first])

\* the body of a quoted string after its opening: [^excl]* and, with
\* backslash escapes, (?:\\.[^excl]*)* ; gives the position after the body
RECURSIVE QuotedBodyEnd(_, _, _, _)
QuotedBodyEnd(s, i, excl, esc) ==
    LET j == i + SpanNotIn(s, i, excl)
    IN  IF esc /\ At(s, j) = "\\" /\ j + 1 <= Len(s) /\ s[j + 1] \notin LineTerminators
        THEN QuotedBodyEnd(s, j + 2, excl, esc)
        ELSE j

\* one repetition open body (close|$) at position i: the position of its last
\* character, or 0
QuotedOnce(s, i, open, excl, esc, close) ==
    IF ~StartsWithAt(s, i, open) THEN 0
    ELSE LET j == QuotedBodyEnd(s, i + Len(open), excl, esc)
         IN  IF j > Len(s) THEN Len(s)
             ELSE IF s[j] = close THEN j
             ELSE 0

\* (open body (close|$))+ from position i (which must match once)
RECURSIVE QuotedPlus(_, _, _, _, _, _)
QuotedPlus(s, i, open, excl, esc, close) ==
    LET e == QuotedOnce(s, i, open, excl, esc, close)
    IN  IF e = 0 THEN NoMatch
        ELSE IF e < Len(s) /\ QuotedOnce(s, e + 1, open, excl, esc, close) # 0
             THEN QuotedPlus(s, e + 1, open, excl, esc, close)
        ELSE e

\* (\[[^\]]*($|\]))(\][^\]]*($|\]))* : after the first part every further "]"
\* opens another part
RECURSIVE BracketRest(_, _)
BracketRest(s, e) ==
    IF At(s, e + 1) = "]"
    THEN BracketRest(s, QuotedOnce(s, e + 1, <<"]">>, { "]" }, FALSE, "]"))
    ELSE e

\* the "[]" pattern
BracketPattern(s) ==
    LET e == QuotedOnce(s, 1, <<"[">>, { "]" }, FALSE, "]")
    IN  IF e = 0 THEN NoMatch ELSE BracketRest(s, e)

\* createStringPattern: the pattern of one string type
StringPattern(type, s) ==
    IF type = "bt" THEN QuotedPlus(s, 1, <<Backtick>>, { Backtick }, FALSE, Backtick)
    ELSE IF type = "br" THEN BracketPattern(s)
    ELSE IF type = "dq" THEN QuotedPlus(s, 1, <<"\"">>, { "\"", "\\" }, TRUE, "\"")
    ELSE IF type = "sq" THEN QuotedPlus(s, 1, <<"'">>, { "'", "\\" }, TRUE, "'")
    ELSE QuotedPlus(s, 1, <<"N", "'">>, { "N", "'", "\\" }, TRUE, "'")

\* createStringRegex: ^(p1|p2|...) over the configured string types in order
STRING_REGEX(s) ==
    LET hits == { k \in DOMAIN stringTypes : StringPattern(stringTypes[k], s) # NoMatch }
        first == CHOOSE k \in hits : \A j \in hits : k <= j
    IN  IF hits = {} THEN NoMatch ELSE StringPattern(stringTypes[first], s)

----------------------------------------------------------------------------
(* Tokenizer: the token recognizers and the cascade.                       *)

tokenTypes ==
    [ WHITESPACE |-> "whitespace", WORD |-> "word", STRING |-> "string",
      RESERVED |-> "reserved", RESERVED_TOPLEVEL |-> "reserved-toplevel",
      RESERVED_TOPLEVEL_INLINE |-> "reserved-toplevel-inline",
      UNION_WORDS |-> "union-words", RESERVED_NEWLINE |-> "reserved-newline",
      OPERATOR |-> "operator", OPEN_PAREN |-> "open-paren",
      CLOSE_PAREN |-> "close-paren", LINE_COMMENT |-> "line-comment",
      BLOCK_COMMENT |-> "block-comment", NUMBER |-> "number",
      PLACEHOLDER |-> "placeholder" ]

\* the value JavaScript gives for a missing property, a missing array
\* element's fields and an unassigned variable
Undefined == "undefined"

\* tokenTypes.<name>: undefined when the table has no such key
TokenType(name) ==
    IF name \in DOMAIN tokenTypes THEN tokenTypes[name] ELSE Undefined

\* "no token": what a recognizer returns when its regex does not match, and
\* the fields of the {} that previousToken / followToken give past the ends
NoToken == [ type |-> Undefined, value |-> << >> ]

getTokenOnFirstMatch(s, type, n) ==
    IF n # NoMatch THEN [ type |-> type, value |-> SubSeq(s, 1, n) ] ELSE NoToken

\* a || b on recognizer results
OrElse(a, b) == IF a # NoToken THEN a ELSE b

getWhitespaceToken(s) ==
    getTokenOnFirstMatch(s, tokenTypes.WHITESPACE, WHITESPACE_REGEX(s))

getLineCommentToken(s) ==
    getTokenOnFirstMatch(s, tokenTypes.LINE_COMMENT, LINE_COMMENT_REGEX(s))

getBlockCommentToken(s) ==
    getTokenOnFirstMatch(s, tokenTypes.BLOCK_COMMENT, BLOCK_COMMENT_REGEX(s))

getCommentToken(s) == OrElse(getLineCommentToken(s), getBlockCommentToken(s))

getStringToken(s) ==
    getTokenOnFirstMatch(s, tokenTypes.STRING, STRING_REGEX(s))

getOpenParenToken(s) ==
    getTokenOnFirstMatch(s, tokenTypes.OPEN_PAREN, createParenRegex(openParens, s))

getCloseParenToken(s) ==
    getTokenOnFirstMatch(s, tokenTypes.CLOSE_PAREN, createParenRegex(closeParens, s))

getNumberToken(s) ==
    getTokenOnFirstMatch(s, tokenTypes.NUMBER, NUMBER_REGEX(s))

\* a faulty cascade end: no catch-all operator token
getOperatorTokenNever(s) == NoToken

getOperatorToken(s) ==
    getTokenOnFirstMatch(s, tokenTypes.OPERATOR, OPERATOR_REGEX(s))

getToplevelReservedToken(s) ==
    getTokenOnFirstMatch(s, tokenTypes.RESERVED_TOPLEVEL,
                         createReservedWordRegex(reservedToplevelWords, s))

getToplevelInLineReservedToken(s) ==
    getTokenOnFirstMatch(s, tokenTypes.RESERVED_TOPLEVEL_INLINE,
                         createReservedWordRegex(reservedToplevelInLineWords, s))

getNewlineReservedToken(s) ==
    getTokenOnFirstMatch(s, tokenTypes.RESERVED_NEWLINE,
                         createReservedWordRegex(reservedNewlineWords, s))

getPlainReservedToken(s) ==
    getTokenOnFirstMatch(s, tokenTypes.RESERVED,
                         createReservedWordRegex(reservedWords, s))

getUnionWordsToken(s) ==
    getTokenOnFirstMatch(s, tokenTypes.UNION_WORDS,
                         createReservedWordRegex(unionWords, s))

getWordToken(s) == getTokenOnFirstMatch(s, tokenTypes.WORD, WORD_REGEX(s))

\* a reserved-word family that accepts a keyword after a "." as well
getReservedWordTokenAnywhere(s, previousToken) ==
    OrElse(getToplevelReservedToken(s),
    OrElse(getToplevelInLineReservedToken(s),
    OrElse(getNewlineReservedToken(s),
    OrElse(getPlainReservedToken(s),
           getUnionWordsToken(s)))))

\* a reserved-word family that tries the plain reserved words first
getReservedWordTokenPlainFirst(s, previousToken) ==
    IF previousToken # NoToken /\ previousToken.value = <<".">>
    THEN NoToken
    ELSE OrElse(getPlainReservedToken(s),
         OrElse(getToplevelReservedToken(s),
         OrElse(getToplevelInLineReservedToken(s),
         OrElse(getNewlineReservedToken(s),
                getUnionWordsToken(s)))))

\* a reserved word cannot be preceded by a "."
getReservedWordToken(s, previousToken) ==
    IF previousToken # NoToken /\ previousToken.value = <<".">>
    THEN NoToken
    ELSE OrElse(getToplevelReservedToken(s),
         OrElse(getToplevelInLineReservedToken(s),
         OrElse(getNewlineReservedToken(s),
         OrElse(getPlainReservedToken(s),
                getUnionWordsToken(s)))))

\* the cascade; the placeholder recognizer is commented out in the source
getNextToken(s, previousToken) ==
    OrElse(getWhitespaceToken(s),
    OrElse(getCommentToken(s),
    OrElse(getStringToken(s),
    OrElse(getOpenParenToken(s),
    OrElse(getCloseParenToken(s),
    OrElse(getNumberToken(s),
    OrElse(getReservedWordToken(s, previousToken),
    OrElse(getWordToken(s),
           getOperatorToken(s)))))))))

\* Tokenizer.tokenize as a function: the while loop from the state (input,
\* token).  A recognizer cascade that gave nothing would make the loop's
\* token.value throw; the sequence then ends with NoToken.
RECURSIVE TokenizeLoop(_, _)
TokenizeLoop(s, previousToken) ==
    IF Len(s) = 0 THEN << >>
    ELSE LET t == getNextToken(s, previousToken)
         IN  IF t = NoToken THEN << NoToken >>
             ELSE << t >> \o TokenizeLoop(substring(s, Len(t.value) + 1), t)

tokenize(s) == TokenizeLoop(s, NoToken)

----------------------------------------------------------------------------
(* String helpers of the formatter (lodash and String.prototype).          *)

\* how many whitespace characters end s[1..i]
RECURSIVE TrailingSpaces(_, _)
TrailingSpaces(s, i) ==
    IF i >= 1 /\ s[i] \in WhitespaceChars THEN 1 + TrailingSpaces(s, i - 1) ELSE 0

\* lodash trimEnd
trimEnd(s) == SubSeq(s, 1, Len(s) - TrailingSpaces(s, Len(s)))

\* String.prototype.trim
trim(s) ==
    LET t == trimEnd(s) IN SubSeq(t, SpanIn(t, 1, WhitespaceChars) + 1, Len(t))

\* lodash repeat
RECURSIVE repeat(_, _)
repeat(s, n) == IF n <= 0 THEN << >> ELSE s \o repeat(s, n - 1)

\* string.replace(/\s+/g, ' ')
RECURSIVE equalizeWhitespace(_)
equalizeWhitespace(s) ==
    IF Len(s) = 0 THEN << >>
    ELSE LET n == SpanIn(s, 1, WhitespaceChars)
         IN  IF n >= 1 THEN << " " >> \o equalizeWhitespace(substring(s, n + 1))
             ELSE << s[1] >> \o equalizeWhitespace(substring(s, 2))

\* comment.replace(/\n/g, '\n' + indent)
RECURSIVE ReplaceNewlines(_, _)
ReplaceNewlines(s, indent) ==
    IF Len(s) = 0 THEN << >>
    ELSE IF s[1] = "\n" THEN << "\n" >> \o indent \o ReplaceNewlines(substring(s, 2), indent)
    ELSE << s[1] >> \o ReplaceNewlines(substring(s, 2), indent)

\* a JavaScript value used as a condition
Truthy(v) == v = "true"

----------------------------------------------------------------------------
(* Indentation.  The three flags are never assigned by the constructor     *)
(* (their initialisers are commented out), so they start undefined.        *)

INDENT_TYPE_TOP_LEVEL == "top-level"

INDENT_TYPE_BLOCK_LEVEL == "block-level"

\* new Indentation(indent): indent || '  '
NewIndentation(indent) ==
    [ indent |-> IF indent = Undefined THEN << " ", " " >> ELSE indent,
      indentTypes |-> << >>,
      toTrimEnd |-> Undefined,
      toStartNewLine |-> Undefined,
      toSetWhiteSpace |-> Undefined ]

setNoTrimEnd(self) == [ self EXCEPT !.toTrimEnd = "false" ]

\* returns the flag and resets it: [ret, self]
getTrimEnd(self) ==
    IF Truthy(self.toTrimEnd) THEN [ ret |-> TRUE, self |-> self ]
    ELSE [ ret |-> FALSE, self |-> [ self EXCEPT !.toTrimEnd = "true" ] ]

setNoNewLine(self) == [ self EXCEPT !.toStartNewLine = "false" ]

\* a getStartNewLine that reads the flag and leaves it as it is
getStartNewLineKeeping(self) ==
    [ ret |-> Truthy(self.toStartNewLine), self |-> self ]

getStartNewLine(self) ==
    IF Truthy(self.toStartNewLine) THEN [ ret |-> TRUE, self |-> self ]
    ELSE [ ret |-> FALSE, self |-> [ self EXCEPT !.toStartNewLine = "true" ] ]

setWhiteSpace(self, set) == [ self EXCEPT !.toSetWhiteSpace = set ]

getWhiteSpace(self) == self.toSetWhiteSpace

getIndent(self) == repeat(self.indent, Len(self.indentTypes))

increaseToplevel(self) ==
    [ self EXCEPT !.indentTypes = Append(@, INDENT_TYPE_TOP_LEVEL) ]

increaseBlockLevel(self) ==
    [ self EXCEPT !.indentTypes = Append(@, INDENT_TYPE_BLOCK_LEVEL) ]

\* lodash last
last(s) == IF Len(s) = 0 THEN Undefined ELSE s[Len(s)]

\* Array.prototype.pop: the array without its last element
pop(s) == SubSeq(s, 1, Len(s) - 1)

decreaseTopLevel(self) ==
    IF last(self.indentTypes) = INDENT_TYPE_TOP_LEVEL
    THEN [ self EXCEPT !.indentTypes = pop(@) ]
    ELSE self

\* the while loop of decreaseBlockLevel on the array
RECURSIVE PopBlock(_)
PopBlock(types) ==
    IF Len(types) > 0
    THEN IF last(types) # INDENT_TYPE_TOP_LEVEL THEN pop(types)
         ELSE PopBlock(pop(types))
    ELSE types

\* a decreaseBlockLevel that pops one marker, whatever its type
decreaseBlockLevelOnce(self) == [ self EXCEPT !.indentTypes = pop(@) ]

decreaseBlockLevel(self) == [ self EXCEPT !.indentTypes = PopBlock(@) ]

----------------------------------------------------------------------------
(* InlineBlock.                                                            *)

INLINE_MAX_LENGTH == 200

\* reserved words that cause newlines, comments and semicolons; the table of
\* token types has no key COMMENT
isForbiddenToken(t) ==
    \/ t.type = tokenTypes.RESERVED_TOPLEVEL
    \/ t.type = tokenTypes.RESERVED_NEWLINE
    \/ t.type = TokenType("COMMENT")
    \/ t.type = tokenTypes.BLOCK_COMMENT
    \/ t.value = << ";" >>

\* an isInlineBlock loop that gives up when the running length reaches
\* INLINE_MAX_LENGTH
RECURSIVE InlineScanBelow(_, _, _, _)
InlineScanBelow(toks, i, length, level) ==
    IF i > Len(toks) THEN FALSE
    ELSE LET t   == toks[i]
             len == length + Len(t.value)
             lvl == IF t.type = tokenTypes.OPEN_PAREN THEN level + 1
                    ELSE IF t.type = tokenTypes.CLOSE_PAREN THEN level - 1
                    ELSE level
         IN  IF len >= INLINE_MAX_LENGTH THEN FALSE
             ELSE IF t.type = tokenTypes.CLOSE_PAREN /\ lvl = 0 THEN TRUE
             ELSE IF isForbiddenToken(t) THEN FALSE
             ELSE InlineScanBelow(toks, i + 1, len, lvl)

\* the for loop of isInlineBlock from position i with the running length and
\* paren level
RECURSIVE InlineScan(_, _, _, _)
InlineScan(toks, i, length, level) ==
    IF i > Len(toks) THEN FALSE
    ELSE LET t   == toks[i]
             len == length + Len(t.value)
             lvl == IF t.type = tokenTypes.OPEN_PAREN THEN level + 1
                    ELSE IF t.type = tokenTypes.CLOSE_PAREN THEN level - 1
                    ELSE level
         IN  IF len > INLINE_MAX_LENGTH THEN FALSE
             ELSE IF t.type = tokenTypes.CLOSE_PAREN /\ lvl = 0 THEN TRUE
             ELSE IF isForbiddenToken(t) THEN FALSE
             ELSE InlineScan(toks, i + 1, len, lvl)

isInlineBlock(toks, i) == InlineScan(toks, i, 0, 0)

\* the level after beginIfPossible
beginIfPossible(level, toks, i) ==
    IF level = 0 /\ isInlineBlock(toks, i) THEN 1
    ELSE IF level > 0 THEN level + 1
    ELSE 0

end(level) == level - 1

isActive(level) == level > 0

----------------------------------------------------------------------------
(* Params.  A parameter source is undefined ([given |-> FALSE]) or given   *)
(* with its values by name (byKey) and by position (byIndex).  A value     *)
(* read from it is a string or undefined.                                  *)

NoParams == [ given |-> FALSE, byKey |-> << >>, byIndex |-> << >> ]

JsUndefined == [ defined |-> FALSE, str |-> << >> ]

JsString(s) == [ defined |-> TRUE, str |-> s ]

\* string concatenation converts undefined to the text "undefined"
StringOf(v) ==
    IF v.defined THEN v.str ELSE << "u", "n", "d", "e", "f", "i", "n", "e", "d" >>

NewParams(p) == [ params |-> p, index |-> 0 ]

\* the key of a token; only placeholder tokens carry one
KeyOf(t) == IF "key" \in DOMAIN t THEN t.key ELSE << >>

\* the array index a property key denotes, or NoMatch
IndexOfKey(k) ==
    IF Len(k) = 1 /\ k[1] \in Digits
    THEN CHOOSE n \in 0..9 : << "0", "1", "2", "3", "4", "5", "6", "7", "8", "9" >>[n + 1] = k[1]
    ELSE NoMatch

\* params[n] for a position n
LookupIndex(p, n) ==
    IF n >= 0 /\ n < Len(p.byIndex) THEN JsString(p.byIndex[n + 1]) ELSE JsUndefined

\* params[key] for a property key
LookupKey(p, k) ==
    IF \E j \in DOMAIN p.byKey : p.byKey[j].key = k
    THEN JsString((CHOOSE e \in Range(p.byKey) : e.key = k).value)
    ELSE LookupIndex(p, IndexOfKey(k))

\* a faulty get: the cursor is used, and moved, whether or not there is a key
ParamsGetByCursor(self, t) ==
    IF ~self.params.given THEN [ ret |-> JsString(t.value), self |-> self ]
    ELSE [ ret |-> LookupIndex(self.params, self.index),
           self |-> [ self EXCEPT !.index = @ + 1 ] ]

\* Params.get({key, value}): [ret, self]
ParamsGet(self, t) ==
    IF ~self.params.given THEN [ ret |-> JsString(t.value), self |-> self ]
    ELSE IF KeyOf(t) # << >>
         THEN [ ret |-> LookupKey(self.params, KeyOf(t)), self |-> self ]
    ELSE [ ret |-> LookupIndex(self.params, self.index),
           self |-> [ self EXCEPT !.index = @ + 1 ] ]

----------------------------------------------------------------------------
(* Formatter.  The formatting methods work on the formatter's state f:     *)
(* formattedQuery (the output so far), indentation, inlineBlock (its    *)
(* level), params, previousReservedWord and tokens.  i is the 1-based      *)
(* position of the token being visited (this.index + 1).                   *)

\* this.tokens[this.index - offset] || {}
previousToken(f, i, offset) ==
    IF i - offset >= 1 /\ i - offset <= Len(f.tokens)
    THEN f.tokens[i - offset] ELSE NoToken

\* this.tokens[this.index + offset] || {}
followToken(f, i, offset) ==
    IF i + offset >= 1 /\ i + offset <= Len(f.tokens)
    THEN f.tokens[i + offset] ELSE NoToken

RECURSIVE PreviousNonWhitespaceOffset(_, _, _)
PreviousNonWhitespaceOffset(f, i, n) ==
    IF previousToken(f, i, n).type = tokenTypes.WHITESPACE
    THEN PreviousNonWhitespaceOffset(f, i, n + 1) ELSE n

previousNonWhitespaceToken(f, i) ==
    previousToken(f, i, PreviousNonWhitespaceOffset(f, i, 1))

RECURSIVE FollowNonWhitespaceOffset(_, _, _)
FollowNonWhitespaceOffset(f, i, n) ==
    IF followToken(f, i, n).type = tokenTypes.WHITESPACE
    THEN FollowNonWhitespaceOffset(f, i, n + 1) ELSE n

followNonWhitespaceTokenIndex(f, i) ==
    LET n == FollowNonWhitespaceOffset(f, i, 1)
    IN  [ token |-> followToken(f, i, n), index |-> i + n ]

\* addNewline(query): f with query the value returned
addNewline(f, formattedQuery) ==
    LET g == getTrimEnd(f.indentation)
    IN  [ f EXCEPT !.indentation = g.self,
                   !.formattedQuery = (IF g.ret THEN trimEnd(formattedQuery) ELSE formattedQuery)
                             \o << "\n" >> \o getIndent(g.self) ]

trimTrailingWhitespace(f, i, formattedQuery) ==
    IF previousNonWhitespaceToken(f, i).type = tokenTypes.LINE_COMMENT
    THEN trimEnd(formattedQuery) \o << "\n" >>
    ELSE trimEnd(formattedQuery)

\* a formatWithSpaces for which the whitespace flag is one-shot: the read
\* puts it back to true
formatWithSpacesOneShot(f, t, formattedQuery) ==
    [ f EXCEPT !.formattedQuery = IF Truthy(getWhiteSpace(f.indentation))
                         THEN formattedQuery \o t.value \o << " " >>
                         ELSE formattedQuery \o t.value,
               !.indentation = setWhiteSpace(@, "true") ]

formatWithSpaces(f, t, formattedQuery) ==
    [ f EXCEPT !.formattedQuery = IF Truthy(getWhiteSpace(f.indentation))
                         THEN formattedQuery \o t.value \o << " " >>
                         ELSE formattedQuery \o t.value ]

formatWithSpaceAfter(f, i, t, formattedQuery) ==
    [ f EXCEPT !.formattedQuery = trimTrailingWhitespace(f, i, formattedQuery) \o t.value \o << " " >> ]

formatWithoutSpaces(f, i, t, formattedQuery) ==
    [ f EXCEPT !.formattedQuery = trimTrailingWhitespace(f, i, formattedQuery) \o t.value ]

\* /^LIMIT$/i.test(previousReservedWord.value)
IsLimit(word) == toLowerCase(word.value) = << "l", "i", "m", "i", "t" >>

\* a faulty comma rule: the previous reserved word is not looked at
formatCommaAnyWord(f, i, t, formattedQuery) ==
    LET q == trimTrailingWhitespace(f, i, formattedQuery) \o t.value \o << " " >>
    IN  IF isActive(f.inlineBlock) THEN [ f EXCEPT !.formattedQuery = q ]
        ELSE addNewline(f, q)

formatComma(f, i, t, formattedQuery) ==
    LET q == trimTrailingWhitespace(f, i, formattedQuery) \o t.value \o << " " >>
    IN  IF isActive(f.inlineBlock) THEN [ f EXCEPT !.formattedQuery = q ]
        ELSE IF IsLimit(f.previousReservedWord) THEN [ f EXCEPT !.formattedQuery = q ]
        ELSE addNewline(f, q)

\* a formaReserverdWords whose branch for enabled whitespace emission puts no
\* space before the word, as in the bundled copy of the engine
formaReserverdWordsByFlag(f, t, formattedQuery) ==
    [ f EXCEPT !.formattedQuery = IF \/ Truthy(getWhiteSpace(f.indentation))
                            \/ At(formattedQuery, Len(formattedQuery)) = " "
                         THEN formattedQuery \o toLowerCase(t.value) \o << " " >>
                         ELSE formattedQuery \o << " " >> \o toLowerCase(t.value) \o << " " >> ]

\* both branches on getWhiteSpace() hold the same code
formaReserverdWords(f, t, formattedQuery) ==
    [ f EXCEPT !.formattedQuery = IF At(formattedQuery, Len(formattedQuery)) = " "
                         THEN formattedQuery \o toLowerCase(t.value) \o << " " >>
                         ELSE formattedQuery \o << " " >> \o toLowerCase(t.value) \o << " " >> ]

\* an endCodeBlock that pops a top-level marker only
endCodeBlockTopLevel(f, t, formattedQuery) ==
    [ f EXCEPT !.formattedQuery = formattedQuery \o t.value \o << "\n" >>,
               !.indentation = decreaseTopLevel(setNoTrimEnd(@)) ]

\* an endCodeBlock that forgets the previous reserved word
endCodeBlockForgetting(f, t, formattedQuery) ==
    [ f EXCEPT !.formattedQuery = formattedQuery \o t.value \o << "\n" >>,
               !.indentation = decreaseBlockLevel(setNoTrimEnd(@)),
               !.previousReservedWord = NoToken ]

endCodeBlock(f, t, formattedQuery) ==
    [ f EXCEPT !.formattedQuery = formattedQuery \o t.value \o << "\n" >>,
               !.indentation = decreaseBlockLevel(setNoTrimEnd(@)) ]

formatPlaceholder(f, t, formattedQuery) ==
    LET g == ParamsGet(f.params, t)
    IN  [ f EXCEPT !.params = g.self,
                   !.formattedQuery = formattedQuery \o StringOf(g.ret) \o << " " >> ]

\* a formatClosingParentheses that applies decreaseBlockLevel in an inline
\* block too
formatClosingParenthesesDedenting(f, i, t, formattedQuery) ==
    IF isActive(f.inlineBlock)
    THEN formatWithSpaceAfter([ f EXCEPT !.inlineBlock = end(@),
                                         !.indentation = decreaseBlockLevel(@) ],
                              i, t, formattedQuery)
    ELSE LET f1 == [ f EXCEPT !.indentation = decreaseBlockLevel(@) ]
             f2 == addNewline(f1, formattedQuery)
         IN  formatWithSpaces(f2, t, f2.formattedQuery)

\* a formatClosingParentheses that ends an inline block whether or not one
\* is active
formatClosingParenthesesUnguarded(f, i, t, formattedQuery) ==
    formatWithSpaceAfter([ f EXCEPT !.inlineBlock = end(@) ], i, t, formattedQuery)

formatClosingParentheses(f, i, t, formattedQuery) ==
    IF isActive(f.inlineBlock)
    THEN formatWithSpaceAfter([ f EXCEPT !.inlineBlock = end(@) ], i, t, formattedQuery)
    ELSE LET f1 == [ f EXCEPT !.indentation = decreaseBlockLevel(@) ]
             f2 == addNewline(f1, formattedQuery)
         IN  formatWithSpaces(f2, t, f2.formattedQuery)

\* a formatOpeningParentheses whose first branch pushes its block-level
\* marker only while no inline block is active
formatOpeningParenthesesInlineAware(f, i, t, formattedQuery) ==
    IF \/ previousNonWhitespaceToken(f, i).type = tokenTypes.RESERVED_TOPLEVEL_INLINE
       \/ /\ previousNonWhitespaceToken(f, i).value = << "," >>
          /\ toLowerCase(t.value) = << "c", "a", "s", "e" >>
    THEN LET f1 == addNewline(f, formattedQuery)
         IN  [ f1 EXCEPT !.formattedQuery = @ \o t.value,
                         !.indentation = IF isActive(f.inlineBlock)
                                         THEN @ ELSE increaseBlockLevel(@) ]
    ELSE LET preserveWhitespaceFor ==
                 { tokenTypes.WHITESPACE, tokenTypes.OPEN_PAREN, tokenTypes.LINE_COMMENT }
             q     == (IF previousToken(f, i, 1).type \notin preserveWhitespaceFor
                       THEN trimEnd(formattedQuery) ELSE formattedQuery) \o t.value
             level == beginIfPossible(f.inlineBlock, f.tokens, i)
             f1    == [ f EXCEPT !.inlineBlock = level ]
         IN  IF ~isActive(level)
             THEN addNewline([ f1 EXCEPT !.indentation = increaseBlockLevel(@) ], q)
             ELSE [ f1 EXCEPT !.formattedQuery = q ]

formatOpeningParentheses(f, i, t, formattedQuery) ==
    IF \/ previousNonWhitespaceToken(f, i).type = tokenTypes.RESERVED_TOPLEVEL_INLINE
       \/ /\ previousNonWhitespaceToken(f, i).value = << "," >>
          /\ toLowerCase(t.value) = << "c", "a", "s", "e" >>
    THEN LET f1 == addNewline(f, formattedQuery)
         IN  [ f1 EXCEPT !.formattedQuery = @ \o t.value,
                         !.indentation = increaseBlockLevel(@) ]
    ELSE LET preserveWhitespaceFor ==
                 { tokenTypes.WHITESPACE, tokenTypes.OPEN_PAREN, tokenTypes.LINE_COMMENT }
             q     == (IF previousToken(f, i, 1).type \notin preserveWhitespaceFor
                       THEN trimEnd(formattedQuery) ELSE formattedQuery) \o t.value
             level == beginIfPossible(f.inlineBlock, f.tokens, i)
             f1    == [ f EXCEPT !.inlineBlock = level ]
         IN  IF ~isActive(level)
             THEN addNewline([ f1 EXCEPT !.indentation = increaseBlockLevel(@) ], q)
             ELSE [ f1 EXCEPT !.formattedQuery = q ]

formatNewlineReservedWord(f, t, formattedQuery) ==
    LET g  == getStartNewLine(f.indentation)
        f1 == [ f EXCEPT !.indentation = g.self ]
        w  == equalizeWhitespace(toLowerCase(t.value)) \o << " " >>
    IN  IF g.ret
        THEN LET f2 == addNewline(f1, formattedQuery) IN [ f2 EXCEPT !.formattedQuery = @ \o w ]
        ELSE [ f1 EXCEPT !.formattedQuery = formattedQuery \o w ]

\* a formatUnionWords that starts one new line, at the decreased indent
formatUnionWordsOneNewline(f, t, formattedQuery) ==
    LET n2 == setNoTrimEnd(decreaseTopLevel(setNoTrimEnd(f.indentation)))
        q2 == formattedQuery \o << "\n" >> \o getIndent(n2)
    IN  [ f EXCEPT !.formattedQuery = q2 \o toLowerCase(t.value) \o << "\n" >>,
                   !.indentation = setNoTrimEnd(n2) ]

formatUnionWords(f, t, formattedQuery) ==
    LET n1 == setNoTrimEnd(f.indentation)
        q1 == formattedQuery \o << "\n" >> \o getIndent(n1)
        n2 == setNoTrimEnd(decreaseTopLevel(n1))
        q2 == q1 \o << "\n" >> \o getIndent(n2)
    IN  [ f EXCEPT !.formattedQuery = q2 \o toLowerCase(t.value) \o << "\n" >>,
                   !.indentation = setNoTrimEnd(n2) ]

\* a formatToplevelInLineReservedWord that pops no marker before it pushes
\* its own
formatToplevelInLineReservedWordNoPop(f, t, formattedQuery) ==
    LET f1 == addNewline(f, formattedQuery)
    IN  [ f1 EXCEPT !.indentation = increaseToplevel(@),
                    !.formattedQuery = @ \o equalizeWhitespace(toLowerCase(t.value)) \o << " " >> ]

formatToplevelInLineReservedWord(f, t, formattedQuery) ==
    LET f1 == addNewline([ f EXCEPT !.indentation = decreaseTopLevel(@) ], formattedQuery)
    IN  [ f1 EXCEPT !.indentation = increaseToplevel(@),
                    !.formattedQuery = @ \o equalizeWhitespace(toLowerCase(t.value)) \o << " " >> ]

\* a formatToplevelReservedWord that pops no marker before it pushes its own
formatToplevelReservedWordNoPop(f, i, t, formattedQuery) ==
    LET f1 == IF previousNonWhitespaceToken(f, i).type # tokenTypes.OPEN_PAREN
              THEN addNewline(f, formattedQuery)
              ELSE [ f EXCEPT !.formattedQuery = trimEnd(formattedQuery) \o << " " >> ]
        f2 == [ f1 EXCEPT !.indentation = increaseToplevel(@) ]
    IN  addNewline(f2, f2.formattedQuery \o equalizeWhitespace(toLowerCase(t.value)))

formatToplevelReservedWord(f, i, t, formattedQuery) ==
    LET f0 == [ f EXCEPT !.indentation = decreaseTopLevel(@) ]
        f1 == IF previousNonWhitespaceToken(f, i).type # tokenTypes.OPEN_PAREN
              THEN addNewline(f0, formattedQuery)
              ELSE [ f0 EXCEPT !.formattedQuery = trimEnd(formattedQuery) \o << " " >> ]
        f2 == [ f1 EXCEPT !.indentation = increaseToplevel(@) ]
    IN  addNewline(f2, f2.formattedQuery \o equalizeWhitespace(toLowerCase(t.value)))

indentComment(f, comment) == ReplaceNewlines(comment, getIndent(f.indentation))

\* the comment with a space inserted at position 2 (0-based) unless one is there
NormalizeComment(value) ==
    IF At(value, 3) = " " THEN value
    ELSE LET k == IF Len(value) < 2 THEN Len(value) ELSE 2
         IN  SubSeq(value, 1, k) \o << " " >> \o SubSeq(value, k + 1, Len(value))

formatBlockComment(f, i, t, formattedQuery) ==
    LET value == NormalizeComment(t.value)
        f0    == [ f EXCEPT !.tokens[i].value = value ]
        f1    == addNewline(f0, formattedQuery)
    IN  addNewline(f1, f1.formattedQuery \o indentComment(f1, value))

\* a formatLineComment that formats the comma that follows the comment and
\* leaves the two tokens where they are
formatLineCommentInPlace(f, i, t, formattedQuery) ==
    LET follow == followNonWhitespaceTokenIndex(f, i)
    IN  IF follow.token.value = << "," >>
        THEN formatComma(f, i, f.tokens[follow.index], formattedQuery)
        ELSE LET value == NormalizeComment(t.value)
                 f0    == [ f EXCEPT !.tokens[i].value = value ]
                 prev  == previousNonWhitespaceToken(f0, i)
             IN  IF prev.type = tokenTypes.UNION_WORDS
                 THEN [ f0 EXCEPT !.formattedQuery = trimEnd(formattedQuery) \o << " " >> \o value,
                                  !.indentation = setNoTrimEnd(@) ]
                 ELSE IF prev.value # << ";" >> /\ prev.type # tokenTypes.LINE_COMMENT
                 THEN LET f1 == addNewline(f0, value)
                      IN  [ f1 EXCEPT !.formattedQuery = trimEnd(formattedQuery) \o << " " >> \o @ ]
                 ELSE LET f1 == addNewline(f0, formattedQuery)
                          f2 == addNewline(f1, value)
                      IN  [ f2 EXCEPT !.formattedQuery = f1.formattedQuery \o @ ]

\* a formatLineComment that puts every comment not after a union keyword on
\* a line of its own
formatLineCommentOwnLine(f, i, t, formattedQuery) ==
    LET follow == followNonWhitespaceTokenIndex(f, i)
    IN  IF follow.token.value = << "," >>
        THEN LET commaToken == f.tokens[follow.index]
                 f0 == [ f EXCEPT !.tokens[follow.index] = t,
                                  !.tokens[i] = commaToken ]
             IN  formatComma(f0, i, commaToken, formattedQuery)
        ELSE LET value == NormalizeComment(t.value)
                 f0    == [ f EXCEPT !.tokens[i].value = value ]
                 prev  == previousNonWhitespaceToken(f0, i)
             IN  IF prev.type = tokenTypes.UNION_WORDS
                 THEN [ f0 EXCEPT !.formattedQuery = trimEnd(formattedQuery) \o << " " >> \o value,
                                  !.indentation = setNoTrimEnd(@) ]
                 ELSE LET f1 == addNewline(f0, formattedQuery)
                          f2 == addNewline(f1, value)
                      IN  [ f2 EXCEPT !.formattedQuery = f1.formattedQuery \o @ ]

\* a formatLineComment that formats the comma that follows the comment
\* without putting the comment in the place of the comma
formatLineCommentCommaOnly(f, i, t, formattedQuery) ==
    LET follow == followNonWhitespaceTokenIndex(f, i)
    IN  IF follow.token.value = << "," >>
        THEN LET commaToken == f.tokens[follow.index]
                 f0 == [ f EXCEPT !.tokens[i] = commaToken ]
             IN  formatComma(f0, i, commaToken, formattedQuery)
        ELSE LET value == NormalizeComment(t.value)
                 f0    == [ f EXCEPT !.tokens[i].value = value ]
                 prev  == previousNonWhitespaceToken(f0, i)
             IN  IF prev.type = tokenTypes.UNION_WORDS
                 THEN [ f0 EXCEPT !.formattedQuery = trimEnd(formattedQuery) \o << " " >> \o value,
                                  !.indentation = setNoTrimEnd(@) ]
                 ELSE IF prev.value # << ";" >> /\ prev.type # tokenTypes.LINE_COMMENT
                 THEN LET f1 == addNewline(f0, value)
                      IN  [ f1 EXCEPT !.formattedQuery = trimEnd(formattedQuery) \o << " " >> \o @ ]
                 ELSE LET f1 == addNewline(f0, formattedQuery)
                          f2 == addNewline(f1, value)
                      IN  [ f2 EXCEPT !.formattedQuery = f1.formattedQuery \o @ ]

formatLineComment(f, i, t, formattedQuery) ==
    LET follow == followNonWhitespaceTokenIndex(f, i)
    IN  IF follow.token.value = << "," >>
        THEN LET commaToken == f.tokens[follow.index]
                 f0 == [ f EXCEPT !.tokens[follow.index] = t,
                                  !.tokens[i] = commaToken ]
             IN  formatComma(f0, i, commaToken, formattedQuery)
        ELSE LET value == NormalizeComment(t.value)
                 f0    == [ f EXCEPT !.tokens[i].value = value ]
                 prev  == previousNonWhitespaceToken(f0, i)
             IN  IF prev.type = tokenTypes.UNION_WORDS
                 THEN [ f0 EXCEPT !.formattedQuery = trimEnd(formattedQuery) \o << " " >> \o value,
                                  !.indentation = setNoTrimEnd(@) ]
                 ELSE IF prev.value # << ";" >> /\ prev.type # tokenTypes.LINE_COMMENT
                 THEN LET f1 == addNewline(f0, value)
                      IN  [ f1 EXCEPT !.formattedQuery = trimEnd(formattedQuery) \o << " " >> \o @ ]
                 ELSE LET f1 == addNewline(f0, formattedQuery)
                          f2 == addNewline(f1, value)
                      IN  [ f2 EXCEPT !.formattedQuery = f1.formattedQuery \o @ ]

\* /^ADD JAR/i.test(value) || /^SET/i.test(value)
DisablesWhiteSpace(value) ==
    \/ StartsWithAt(toLowerCase(value), 1, << "a", "d", "d", " ", "j", "a", "r" >>)
    \/ StartsWithAt(toLowerCase(value), 1, << "s", "e", "t" >>)

\* /^BETWEEN/i.test(value)
IsBetween(value) ==
    StartsWithAt(toLowerCase(value), 1, << "b", "e", "t", "w", "e", "e", "n" >>)

\* the branch of the forEach callback a token takes
RuleOf(t) ==
    IF t.type = tokenTypes.WHITESPACE THEN "whitespace"
    ELSE IF t.type = tokenTypes.LINE_COMMENT THEN "line-comment"
    ELSE IF t.type = tokenTypes.BLOCK_COMMENT THEN "block-comment"
    ELSE IF t.type = tokenTypes.RESERVED_TOPLEVEL THEN "reserved-toplevel"
    ELSE IF t.type = tokenTypes.RESERVED_NEWLINE THEN "reserved-newline"
    ELSE IF t.type = tokenTypes.RESERVED_TOPLEVEL_INLINE THEN "reserved-toplevel-inline"
    ELSE IF t.type = tokenTypes.UNION_WORDS THEN "union-words"
    ELSE IF t.type = tokenTypes.RESERVED THEN "reserved"
    ELSE IF t.type = tokenTypes.OPEN_PAREN THEN "open-paren"
    ELSE IF t.type = tokenTypes.CLOSE_PAREN THEN "close-paren"
    ELSE IF t.type = tokenTypes.PLACEHOLDER THEN "placeholder"
    ELSE IF t.value = << "," >> THEN "comma"
    ELSE IF t.value \in { << ":" >>, << "." >>, << "$" >>, << "{" >>, << "}" >> }
         THEN "without-spaces"
    ELSE IF t.value = << ";" >> THEN "semicolon"
    ELSE "default"

\* the body of the forEach callback for the token at position i
FormatTokenAt(f, i) ==
    LET t == f.tokens[i]
        r == RuleOf(t)
        q == f.formattedQuery
    IN  IF r = "whitespace" THEN f
        ELSE IF r = "line-comment" THEN formatLineComment(f, i, t, q)
        ELSE IF r = "block-comment" THEN formatBlockComment(f, i, t, q)
        ELSE IF r = "reserved-toplevel"
             THEN [ formatToplevelReservedWord(f, i, t, q) EXCEPT !.previousReservedWord = t ]
        ELSE IF r = "reserved-newline"
             THEN LET f1 == formatNewlineReservedWord(f, t, q)
                  IN  [ f1 EXCEPT !.indentation =
                                      IF DisablesWhiteSpace(t.value)
                                      THEN setWhiteSpace(@, "false") ELSE @,
                                  !.previousReservedWord = t ]
        ELSE IF r = "reserved-toplevel-inline"
             THEN [ formatToplevelInLineReservedWord(f, t, q) EXCEPT !.previousReservedWord = t ]
        ELSE IF r = "union-words"
             THEN [ formatUnionWords(f, t, q) EXCEPT !.previousReservedWord = t ]
        ELSE IF r = "reserved"
             THEN LET f0 == IF IsBetween(t.value)
                            THEN [ f EXCEPT !.indentation = setNoNewLine(@) ] ELSE f
                  IN  [ formaReserverdWords(f0, t, q) EXCEPT !.previousReservedWord = t ]
        ELSE IF r = "open-paren" THEN formatOpeningParentheses(f, i, t, q)
        ELSE IF r = "close-paren" THEN formatClosingParentheses(f, i, t, q)
        ELSE IF r = "placeholder" THEN formatPlaceholder(f, t, q)
        ELSE IF r = "comma" THEN formatComma(f, i, t, q)
        ELSE IF r = "without-spaces" THEN formatWithoutSpaces(f, i, t, q)
        ELSE IF r = "semicolon"
             THEN endCodeBlock([ f EXCEPT !.indentation = setWhiteSpace(@, "true") ], t, q)
        ELSE formatWithSpaces(f, t, q)

\* a Formatter that, from the second call on, keeps the Indentation object
\* of the Formatter of the call before
NewFormatterShared(toks) ==
    [ formattedQuery |-> << >>,
      indentation |-> IF callNo = 0 THEN NewIndentation(Undefined)
                      ELSE formatter.indentation,
      inlineBlock |-> 0,
      params |-> NewParams(NoParams),
      previousReservedWord |-> NoToken,
      tokens |-> toks ]

\* new Formatter(cfg, tokenizer) with cfg = {} ; then this.tokens = tokens
NewFormatter(toks) ==
    [ formattedQuery |-> << >>,
      indentation |-> NewIndentation(Undefined),
      inlineBlock |-> 0,
      params |-> NewParams(NoParams),
      previousReservedWord |-> NoToken,
      tokens |-> toks ]

----------------------------------------------------------------------------
(* The queries the caller formats.                                         *)

\* `SELECT a, b FROM t WHERE x = 1`
Scenario1 ==
    <<"S", "E", "L", "E", "C", "T", " ", "a", ",", " ", "b", " ", "F", "R", "O", "M", " ", "t", " ", "W", "H", "E", "R", "E", " ", "x", " ", "=", " ", "1">>

\* `SELECT a, b, c LIMIT 10, 20`
ScenarioLimit ==
    <<"S", "E", "L", "E", "C", "T", " ", "a", ",", " ", "b", ",", " ", "c", " ", "L", "I", "M", "I", "T", " ", "1", "0", ",", " ", "2", "0">>

\* `:name`
ScenarioPlaceholder ==
    <<":", "n", "a", "m", "e">>

\* a leading close-paren, an open-paren never closed, comments at both ends
UnbalancedQuery ==
    <<"-", "-", "x", "\n", ")", "a", "(", " ", "/", "*", "y", "*", "/">>

Scenarios ==
    { Scenario1,
      UnbalancedQuery,
      ScenarioLimit,
      ScenarioPlaceholder,
      <<>>,
      <<"s", "e", "l", "e", "c", "t", " ", "/", "*", "a", "\n", "b", "*", "/", " ", "c">>,
      <<"a", " ", "U", "N", "I", "O", "N", " ", " ", "A", "L", "L", " ", "b">>,
      <<"a", " ", "u", "n", "i", "o", "n", " ", "a", "l", "l", " ", "b">>,
      <<"c", " ", "a", "s", "e">>,
      <<"(", "a", " ", "#", "x", "\n", ")">>,
      <<"(", "a", ";", "b", ")">>,
      <<"(", "s", "e", "l", "e", "c", "t", " ", "a", ")">>,
      <<"(", "a", " ", "/", "*", "x", "*", "/", " ", "b", ")">>,
      <<"x", " ", "i", "n", " ", "(", "1", ",", " ", "2", ")", " ", "l", "i", "m", "i", "t", " ", "3", ",", " ", "4">>,
      <<"A", "D", "D", " ", " ", "J", "A", "R", " ", "x", " ", "y">>,
      <<"a", "d", "d", " ", "j", "a", "r", " ", "x", " ", "y">>,
      <<"a", " ", "!", "=", "b", "<", ">", " ", "c">>,
      <<"a", " ", "#", "x", "\n", ",", " ", "b">>,
      <<")", "a", "(">>,
      <<"c", "a", "s", "e", " ", "w", "h", "e", "n", " ", "a", " ", "t", "h", "e", "n", " ", "b", " ", "e", "n", "d">>,
      <<"a", " ", "b", ";", " ", "c", " ", "d">>,
      <<"a", " ", "b", "e", "t", "w", "e", "e", "n", " ", "1", " ", "a", "n", "d", " ", "2">>,
      <<"s", "e", "t", " ", "a", " ", "=", " ", "b">>,
      <<"t", ".", "x", ",", " ", "'", "a", " ", "b", "'", ",", " ", "?">>,
      <<"(", "a", ",", " ", "c", "a", "s", "e", " ", "b", " ", "e", "n", "d", ")">>,
      <<"f", "r", "o", "m", " ", "(", "a", ")">>,
      <<"-", "-", "x", "\n", "-", "-", "y">>,
      <<"a", " ", "u", "n", "i", "o", "n", " ", "-", "-", "x", "\n", "b">>,
      <<"a", " ", "a", "n", "d", " ", "b", " ", "a", "n", "d", " ", "c">>,
      <<"a", " ", "b", "e", "t", "w", "e", "e", "n", " ", "1", " ", "a", "n", "d", " ", "2", " ", "a", "n", "d", " ", "b">>,
      <<"x", " ", "b", "e", "t", "w", "e", "e", "n", " ", "1", ";", " ", "a", "n", "d", " ", "2", " ", "a", "n", "d", " ", "3">>,
      <<"a", ";", " ", "s", "e", "t", " ", "b", " ", "c", ";", " ", "d">>,
      <<"u", "s", "e", " ", "a", " ", "m", "o", "d", "i", "f", "y", " ", "b", " ", "e", "l", "s", "e", " ", "c">>,
      <<"a", ".", "f", "r", "o", "m", " ", "b", ".", " ", "f", "r", "o", "m", " ", "c">>,
      <<"s", "e", "l", "e", "c", "t", " ", "a", " ", "u", "n", "i", "o", "n", " ", "a", "l", "l", " ", "s", "e", "l", "e", "c", "t", " ", "b">>,
      <<"s", "e", "l", "e", "c", "t", " ", "(", "s", "e", "l", "e", "c", "t", " ", "a", ")", " ", "s", "e", "l", "e", "c", "t", " ", "b">>,
      <<"(", "(", "s", "e", "l", "e", "c", "t", " ", "a", ";", "b", ")", ")">>,
      <<"a", ";", "a", "s", " ", "b">>,
      <<"(", "a", " ", "f", "r", "o", "m", " ", "(", "b", ")", ")">>,
      <<"s", "e", "l", "e", "c", "t", " ", "a", " ", "f", "r", "o", "m", " ", "b">>,
      <<"l", "i", "m", "i", "t", " ", "1", ";", " ", "a", ",", " ", "b">> }

Lexemes ==
    { <<"a">>,
      <<",">>,
      <<"(">>,
      <<")">>,
      <<";">>,
      <<"s", "e", "l", "e", "c", "t">>,
      <<"#", "x", "\n">>,
      <<"/", "*", "\n", "*", "/">> }

\* the most lexemes a generated query is made of
MaxLexemes == 2

\* the most format calls one process makes
MaxCalls == 2

\* the highest value the positional cursor of a Params object is driven to
MaxCursor == 4

\* the queries made of at most n lexemes separated by single spaces
RECURSIVE Sentences(_)
Sentences(n) ==
    IF n = 0 THEN { << >> }
    ELSE LET shorter == Sentences(n - 1)
         IN  shorter \cup Lexemes
                     \cup { s \o << " " >> \o l : s \in shorter \ { << >> }, l \in Lexemes }

Inputs == Scenarios \cup Sentences(MaxLexemes)

\* the parameter sources a caller may hold: none, or {name: "'x'"}
SuppliedParams ==
    { NoParams,
      [ given |-> TRUE,
        byKey |-> << [ key |-> << "n", "a", "m", "e" >>, value |-> << "'", "x", "'" >> ] >>,
        byIndex |-> << >> ] }

\* token types whose values are keywords, possibly of several words
KeywordTypes ==
    { tokenTypes.RESERVED, tokenTypes.RESERVED_TOPLEVEL, tokenTypes.RESERVED_NEWLINE,
      tokenTypes.RESERVED_TOPLEVEL_INLINE, tokenTypes.UNION_WORDS }

RECURSIVE NormalizeTokens(_, _)
NormalizeTokens(toks, i) ==
    IF i > Len(toks) THEN << >>
    ELSE (IF toks[i].type = tokenTypes.WHITESPACE THEN << " " >>
          ELSE IF toks[i].type \in KeywordTypes THEN equalizeWhitespace(toks[i].value)
          ELSE toks[i].value) \o NormalizeTokens(toks, i + 1)

\* q with each run of whitespace between tokens, or between the words of a
\* keyword, replaced by a single space; strings and comments are kept
NormalizeWhitespace(q) == NormalizeTokens(tokenize(q), 1)

----------------------------------------------------------------------------
(* The process: format calls made one after another in one module          *)
(* instance.  A call tokenizes its query iteration by iteration, then      *)
(* visits the tokens one by one, then returns the trimmed output.          *)

\* `let tokenizer;` : the module variable before the first call
NoTokenizer == [ constructedIn |-> 0 ]

\* new Tokenizer({...}), told apart from other instances by the call that
\* constructed it; its fields are the regular expressions above, which no
\* method assigns
NewTokenizer(n) == [ constructedIn |-> n ]

\* a format that constructs a Tokenizer on every call
MemoizedNever(tk, n) == NewTokenizer(n)

\* if (!tokenizer) { tokenizer = new Tokenizer({...}) } in call n
Memoized(tk, n) == IF tk = NoTokenizer THEN NewTokenizer(n) ELSE tk

Init ==
    /\ pc = "idle"
    /\ callNo = 0
    /\ origin = "none"
    /\ supplied = NoParams
    /\ tokenizer = NoTokenizer
    /\ input = << >>
    /\ token = NoToken
    /\ tokens = << >>
    /\ formatter = NewFormatter(<< >>)
    /\ index = 0
    /\ before = NewFormatter(<< >>)
    /\ rule = "none"
    /\ query = << >>
    /\ result = << >>
    /\ firstQuery = << >>
    /\ firstResult = << >>
    /\ paramsObject = NewParams(NoParams)
    /\ paramsBefore = NewParams(NoParams)
    /\ asked = NoToken
    /\ got = JsUndefined
    /\ indentationObject = NewIndentation(Undefined)
    /\ indentationBefore = NewIndentation(Undefined)
    /\ called = "none"
    /\ returned = Undefined
    /\ armed = [ trimEnd |-> FALSE, startNewLine |-> FALSE,
                 before |-> [ trimEnd |-> FALSE, startNewLine |-> FALSE ] ]

\* format(q) entered by a caller holding the parameter source p: the entry
\* point passes only the query on, with the configuration {}
StartCall(q, how, p) ==
    /\ callNo < MaxCalls
    /\ callNo' = callNo + 1
    /\ origin' = how
    /\ supplied' = p
    /\ query' = q
    /\ firstQuery' = IF callNo = 0 THEN q ELSE firstQuery
    /\ tokenizer' = Memoized(tokenizer, callNo + 1)
    /\ formatter' = NewFormatter(<< >>)
    /\ before' = NewFormatter(<< >>)
    /\ input' = q
    /\ token' = NoToken
    /\ tokens' = << >>
    /\ index' = 0
    /\ rule' = "none"
    /\ pc' = "tokenize"
    /\ UNCHANGED << result, firstResult, paramsObject, paramsBefore, asked, got,
                    indentationObject, indentationBefore, called, returned, armed >>

\* the first call of the process
Format(q, p) ==
    /\ pc = "idle"
    /\ StartCall(q, "fresh", p)

\* the caller formats the output of the call that just returned
Reformat ==
    /\ pc = "done"
    /\ StartCall(result, "reformat", supplied)

\* the caller formats the first query again with its whitespace normalised
FormatNormalized ==
    /\ pc = "done"
    /\ StartCall(NormalizeWhitespace(firstQuery), "normalized", supplied)

\* one iteration of the while loop of Tokenizer.tokenize
TokenizeStep ==
    /\ pc = "tokenize"
    /\ input # << >>
    /\ token' = getNextToken(input, token)
    /\ IF token' = NoToken
       THEN \* token.value of undefined: a TypeError ends the call
            /\ pc' = "failed"
            /\ UNCHANGED << input, tokens >>
       ELSE /\ input' = substring(input, Len(token'.value) + 1)
            /\ tokens' = Append(tokens, token')
            /\ pc' = pc
    /\ UNCHANGED << callNo, origin, supplied, tokenizer, formatter, index, before,
                    rule, query, result, firstQuery, firstResult,
                    paramsObject, paramsBefore, asked, got,
                    indentationObject, indentationBefore, called, returned, armed >>

\* the loop ends: this.tokens = tokens, and forEach starts
TokenizeReturn ==
    /\ pc = "tokenize"
    /\ input = << >>
    /\ formatter' = [ formatter EXCEPT !.tokens = tokens ]
    /\ index' = 0
    /\ pc' = "format"
    /\ UNCHANGED << callNo, origin, supplied, tokenizer, input, token, tokens,
                    before, rule, query, result, firstQuery, firstResult,
                    paramsObject, paramsBefore, asked, got,
                    indentationObject, indentationBefore, called, returned, armed >>

\* the branch the callback takes at position i; a line comment followed by a
\* comma is told apart, since it formats the comma in its place
RuleAt(f, i) ==
    IF /\ RuleOf(f.tokens[i]) = "line-comment"
       /\ followNonWhitespaceTokenIndex(f, i).token.value = << "," >>
    THEN "line-comment-comma"
    ELSE RuleOf(f.tokens[i])

\* a callback that throws when a close-paren or a `;` finds no indent to
\* close
FormatTokenStrict ==
    /\ pc = "format"
    /\ index < Len(formatter.tokens)
    /\ before' = formatter
    /\ rule' = RuleAt(formatter, index + 1)
    /\ IF /\ RuleAt(formatter, index + 1) \in { "close-paren", "semicolon" }
          /\ formatter.indentation.indentTypes = << >>
       THEN /\ pc' = "failed"
            /\ UNCHANGED << formatter, index >>
       ELSE /\ formatter' = FormatTokenAt(formatter, index + 1)
            /\ index' = index + 1
            /\ pc' = pc
    /\ UNCHANGED << callNo, origin, supplied, tokenizer, input, token, tokens,
                    query, result, firstQuery, firstResult, paramsObject,
                    paramsBefore, asked, got, indentationObject,
                    indentationBefore, called, returned, armed >>

\* one call of the forEach callback
FormatToken ==
    /\ pc = "format"
    /\ index < Len(formatter.tokens)
    /\ before' = formatter
    /\ rule' = RuleAt(formatter, index + 1)
    /\ formatter' = FormatTokenAt(formatter, index + 1)
    /\ index' = index + 1
    /\ UNCHANGED << pc, callNo, origin, supplied, tokenizer, input, token, tokens,
                    query, result, firstQuery, firstResult, paramsObject, paramsBefore, asked, got,
                    indentationObject, indentationBefore, called, returned, armed >>

\* forEach is over: format returns formattedQuery.trim()
Return ==
    /\ pc = "format"
    /\ index = Len(formatter.tokens)
    /\ result' = trim(formatter.formattedQuery)
    /\ firstResult' = IF callNo = 1 THEN trim(formatter.formattedQuery) ELSE firstResult
    /\ pc' = "done"
    /\ UNCHANGED << callNo, origin, supplied, tokenizer, input, token, tokens,
                    formatter, index, before, rule, query, firstQuery,
                    paramsObject, paramsBefore, asked, got,
                    indentationObject, indentationBefore, called, returned, armed >>

Next ==
    \/ \E q \in Inputs, p \in SuppliedParams : Format(q, p)
    \/ Reformat
    \/ FormatNormalized
    \/ TokenizeStep
    \/ TokenizeReturn
    \/ FormatToken
    \/ Return

Spec == Init /\ [][Next]_vars

\* WF_vars(TokenizeStep), with ENABLED <<TokenizeStep>>_vars written out: the
\* action is enabled exactly when its guard holds, and each of its steps
\* changes token, tokens or pc
TokenizeStepFairness ==
    \/ []<>(~(pc = "tokenize" /\ input # << >>))
    \/ []<><<TokenizeStep>>_vars

\* WF_vars(FormatToken), with ENABLED <<FormatToken>>_vars written out: the
\* action is enabled exactly when its guard holds, and each of its steps
\* changes index or pc
FormatTokenFairness ==
    \/ []<>(~(pc = "format" /\ index < Len(formatter.tokens)))
    \/ []<><<FormatToken>>_vars

\* a call that has started keeps running: the loops of tokenize and forEach
\* are synchronous code that nothing suspends
FairSpec ==
    Spec /\ TokenizeStepFairness /\ WF_vars(TokenizeReturn)
         /\ FormatTokenFairness /\ WF_vars(Return)

----------------------------------------------------------------------------
(* A Params object on its own: constructed over a parameter source, then   *)
(* asked for the values of placeholder tokens.                             *)

ParamSources ==
    { NoParams,
      [ given |-> TRUE, byKey |-> << >>, byIndex |-> << >> ],
      [ given |-> TRUE,
        byKey |-> << [ key |-> << "n", "a", "m", "e" >>, value |-> << "'", "x", "'" >> ] >>,
        byIndex |-> << >> ],
      [ given |-> TRUE,
        byKey |-> << [ key |-> << "n", "a", "m", "e" >>, value |-> << "y" >> ],
                     [ key |-> << "i", "d" >>, value |-> << "7" >> ] >>,
        byIndex |-> << >> ],
      [ given |-> TRUE, byKey |-> << >>, byIndex |-> << << "a" >>, << "b" >> >> ],
      [ given |-> TRUE, byKey |-> << >>, byIndex |-> << << "c" >> >> ] }

PlaceholderTokens ==
    { [ type |-> tokenTypes.PLACEHOLDER, value |-> << ":", "n", "a", "m", "e" >>,
        key |-> << "n", "a", "m", "e" >> ],
      [ type |-> tokenTypes.PLACEHOLDER, value |-> << ":", "i", "d" >>,
        key |-> << "i", "d" >> ],
      [ type |-> tokenTypes.PLACEHOLDER, value |-> << "?", "1" >>, key |-> << "1" >> ],
      [ type |-> tokenTypes.PLACEHOLDER, value |-> << "?", "0" >>, key |-> << "0" >> ],
      [ type |-> tokenTypes.PLACEHOLDER, value |-> << "?" >>, key |-> << >> ],
      [ type |-> tokenTypes.WORD, value |-> << "w" >> ] }

InitParams ==
    /\ pc = "idle"
    /\ callNo = 0
    /\ origin = "none"
    /\ supplied = NoParams
    /\ tokenizer = NoTokenizer
    /\ input = << >>
    /\ token = NoToken
    /\ tokens = << >>
    /\ formatter = NewFormatter(<< >>)
    /\ index = 0
    /\ before = NewFormatter(<< >>)
    /\ rule = "none"
    /\ query = << >>
    /\ result = << >>
    /\ firstQuery = << >>
    /\ firstResult = << >>
    /\ \E p \in ParamSources :
          /\ paramsObject = NewParams(p)
          /\ paramsBefore = NewParams(p)
    /\ asked = NoToken
    /\ got = JsUndefined
    /\ indentationObject = NewIndentation(Undefined)
    /\ indentationBefore = NewIndentation(Undefined)
    /\ called = "none"
    /\ returned = Undefined
    /\ armed = [ trimEnd |-> FALSE, startNewLine |-> FALSE,
                 before |-> [ trimEnd |-> FALSE, startNewLine |-> FALSE ] ]

\* params.get(t)
Get(t) ==
    /\ paramsObject.index < MaxCursor
    /\ paramsBefore' = paramsObject
    /\ asked' = t
    /\ got' = ParamsGet(paramsObject, t).ret
    /\ paramsObject' = ParamsGet(paramsObject, t).self
    /\ UNCHANGED << pc, callNo, origin, supplied, tokenizer, input, token, tokens,
                    formatter, index, before, rule, query, result, firstQuery,
                    firstResult, indentationObject, indentationBefore, called,
                    returned, armed >>

NextParams == \E t \in PlaceholderTokens : Get(t)

SpecParams == InitParams /\ [][NextParams]_vars

----------------------------------------------------------------------------
(* An Indentation object on its own: constructed as the Formatter          *)
(* constructs it, then its methods called in any order.                    *)

\* the deepest indent stack the calls build
MaxDepth == 3

\* the boolean a method returns, as a JavaScript value
JsBoolean(b) == IF b THEN "true" ELSE "false"

\* a method call that leaves the object as self and returns ret; noTrim
\* and noNewLine tell whether the flags are armed after it
Called(name, self, ret, noTrim, noNewLine) ==
    /\ indentationBefore' = indentationObject
    /\ armed' = [ trimEnd |-> noTrim, startNewLine |-> noNewLine,
                  before |-> [ trimEnd |-> armed.trimEnd,
                               startNewLine |-> armed.startNewLine ] ]
    /\ indentationObject' = self
    /\ called' = name
    /\ returned' = ret
    /\ UNCHANGED << pc, callNo, origin, supplied, tokenizer, input, token, tokens,
                    formatter, index, before, rule, query, result, firstQuery,
                    firstResult, paramsObject, paramsBefore, asked, got >>

SetNoTrimEnd ==
    /\ Called("setNoTrimEnd", setNoTrimEnd(indentationObject), Undefined,
              TRUE, armed.startNewLine)

GetTrimEnd ==
    /\ Called("getTrimEnd", getTrimEnd(indentationObject).self,
              JsBoolean(getTrimEnd(indentationObject).ret),
              FALSE, armed.startNewLine)

SetNoNewLine ==
    /\ Called("setNoNewLine", setNoNewLine(indentationObject), Undefined,
              armed.trimEnd, TRUE)

GetStartNewLine ==
    /\ Called("getStartNewLine", getStartNewLine(indentationObject).self,
              JsBoolean(getStartNewLine(indentationObject).ret),
              armed.trimEnd, FALSE)

SetWhiteSpace(set) ==
    /\ Called("setWhiteSpace", setWhiteSpace(indentationObject, set), Undefined,
              armed.trimEnd, armed.startNewLine)

GetWhiteSpace ==
    /\ Called("getWhiteSpace", indentationObject, getWhiteSpace(indentationObject),
              armed.trimEnd, armed.startNewLine)

IncreaseToplevel ==
    /\ Len(indentationObject.indentTypes) < MaxDepth
    /\ Called("increaseToplevel", increaseToplevel(indentationObject), Undefined,
              armed.trimEnd, armed.startNewLine)

IncreaseBlockLevel ==
    /\ Len(indentationObject.indentTypes) < MaxDepth
    /\ Called("increaseBlockLevel", increaseBlockLevel(indentationObject), Undefined,
              armed.trimEnd, armed.startNewLine)

DecreaseTopLevel ==
    /\ Called("decreaseTopLevel", decreaseTopLevel(indentationObject), Undefined,
              armed.trimEnd, armed.startNewLine)

DecreaseBlockLevel ==
    /\ Called("decreaseBlockLevel", decreaseBlockLevel(indentationObject), Undefined,
              armed.trimEnd, armed.startNewLine)

NextIndentation ==
    \/ SetNoTrimEnd
    \/ GetTrimEnd
    \/ SetNoNewLine
    \/ GetStartNewLine
    \/ \E set \in { "true", "false" } : SetWhiteSpace(set)
    \/ GetWhiteSpace
    \/ IncreaseToplevel
    \/ IncreaseBlockLevel
    \/ DecreaseTopLevel
    \/ DecreaseBlockLevel

SpecIndentation == Init /\ [][NextIndentation]_vars

-----------------------------------------------------------------------------
(* An InlineBlock object on its own, as the Formatter drives it: over the   *)
(* tokens of a parenthesized region, beginIfPossible is called at           *)
(* open-parens and end while an inline block is active.  The level is       *)
(* formatter.inlineBlock, the position of the last call is index.           *)

\* a word of n characters
WordOfLength(n) == [ type |-> tokenTypes.WORD, value |-> [ k \in 1..n |-> "x" ] ]

OpenParenToken == [ type |-> tokenTypes.OPEN_PAREN, value |-> << "(" >> ]

CloseParenToken == [ type |-> tokenTypes.CLOSE_PAREN, value |-> << ")" >> ]

\* the tokens a region is made of: parens, whitespace, words that fill the
\* region up to INLINE_MAX_LENGTH and one beyond it, and the tokens
\* isForbiddenToken looks for
RegionTokens ==
    { OpenParenToken,
      CloseParenToken,
      [ type |-> tokenTypes.WHITESPACE, value |-> << " " >> ],
      WordOfLength(1),
      WordOfLength(INLINE_MAX_LENGTH - 3),
      WordOfLength(INLINE_MAX_LENGTH - 2),
      WordOfLength(INLINE_MAX_LENGTH - 1),
      [ type |-> tokenTypes.OPERATOR, value |-> << ";" >> ],
      [ type |-> tokenTypes.RESERVED_TOPLEVEL, value |-> << "s", "e", "l", "e", "c", "t" >> ],
      [ type |-> tokenTypes.RESERVED_NEWLINE, value |-> << "a", "n", "d" >> ],
      [ type |-> tokenTypes.LINE_COMMENT, value |-> << "#", "\n" >> ],
      [ type |-> tokenTypes.BLOCK_COMMENT, value |-> << "/", "*", "*", "/" >> ] }

\* the most tokens between the open-paren of a region and its end
MaxBody == 2

\* the highest inline-block level the calls build
MaxLevel == 2

\* the token sequences of at most n region tokens
RECURSIVE Bodies(_)
Bodies(n) ==
    IF n = 0 THEN { << >> }
    ELSE LET shorter == Bodies(n - 1)
         IN  shorter \cup { Append(s, t) : s \in shorter, t \in RegionTokens }

\* an open-paren, a body and the close-paren, or no close-paren
Regions ==
    { << OpenParenToken >> \o body \o tl :
          body \in Bodies(MaxBody), tl \in { << >>, << CloseParenToken >> } }

\* the Formatter is constructed over the tokens of a region, its
\* InlineBlock at level 0
NewInlineBlock(toks) ==
    /\ pc = "idle"
    /\ called = "none"
    /\ formatter' = NewFormatter(toks)
    /\ before' = NewFormatter(toks)
    /\ index' = 0
    /\ called' = "constructor"
    /\ UNCHANGED << pc, callNo, origin, supplied, tokenizer, input, token, tokens,
                    rule, query, result, firstQuery, firstResult,
                    paramsObject, paramsBefore, asked, got,
                    indentationObject, indentationBefore, returned, armed >>

\* this.inlineBlock.beginIfPossible(this.tokens, this.index) at an open-paren
BeginIfPossible(i) ==
    /\ called \in { "constructor", "beginIfPossible", "end" }
    /\ i \in DOMAIN formatter.tokens
    /\ formatter.tokens[i].type = tokenTypes.OPEN_PAREN
    /\ formatter.inlineBlock < MaxLevel
    /\ before' = formatter
    /\ formatter' = [ formatter EXCEPT
                        !.inlineBlock = beginIfPossible(@, formatter.tokens, i) ]
    /\ index' = i
    /\ called' = "beginIfPossible"
    /\ UNCHANGED << pc, callNo, origin, supplied, tokenizer, input, token, tokens,
                    rule, query, result, firstQuery, firstResult,
                    paramsObject, paramsBefore, asked, got,
                    indentationObject, indentationBefore, returned, armed >>

\* if (this.inlineBlock.isActive()) this.inlineBlock.end()
End ==
    /\ called \in { "constructor", "beginIfPossible", "end" }
    /\ isActive(formatter.inlineBlock)
    /\ before' = formatter
    /\ formatter' = [ formatter EXCEPT !.inlineBlock = end(@) ]
    /\ called' = "end"
    /\ UNCHANGED << pc, callNo, origin, supplied, tokenizer, input, token, tokens,
                    index, rule, query, result, firstQuery, firstResult,
                    paramsObject, paramsBefore, asked, got,
                    indentationObject, indentationBefore, returned, armed >>

NextInlineBlock ==
    \/ \E toks \in Regions : NewInlineBlock(toks)
    \/ \E i \in 1..(MaxBody + 2) : BeginIfPossible(i)
    \/ End

SpecInlineBlock == Init /\ [][NextInlineBlock]_vars

----------------------------------------------------------------------------
(* Properties.                                                             *)

\* C1: formatting the output of format again returns it unchanged.
C1_Idempotence ==
    (pc = "done" /\ origin = "reformat") => result = query

\* C2: formatting the first query with every run of whitespace between
\* tokens and inside keywords replaced by one space returns what formatting
\* the first query itself returned.
C2_WhitespaceInvariance ==
    (pc = "done" /\ origin = "normalized") => result = firstResult

\* the number of tokens of toks whose type is type
RECURSIVE CountType(_, _, _)
CountType(toks, i, type) ==
    IF i > Len(toks) THEN 0
    ELSE (IF toks[i].type = type THEN 1 ELSE 0) + CountType(toks, i + 1, type)

\* the text of the tokens of toks from position i on
RECURSIVE ValuesFrom(_, _)
ValuesFrom(toks, i) ==
    IF i > Len(toks) THEN << >> ELSE toks[i].value \o ValuesFrom(toks, i + 1)

\* C3: a call never fails and always completes: tokenizing never meets an
\* input it has no token for, the pass visits each of the tokens once (when
\* the call returns the number of visits is the number of tokens, and the
\* tokens are those of the query), and every call that has started returns.
C3_FormatCompletes ==
    /\ [](pc # "failed")
    /\ [](pc = "done" => /\ index = Len(formatter.tokens)
                         /\ Len(formatter.tokens) = Len(tokens)
                         /\ ValuesFrom(tokens, 1) = query)
    /\ (pc \in { "tokenize", "format" } ~> pc = "done")

\* a call on a query with a leading close-paren, an unbalanced open-paren
\* and comments at both ends has returned
C3_Witness ==
    /\ pc = "done"
    /\ query = UnbalancedQuery
    /\ CountType(formatter.tokens, 1, tokenTypes.CLOSE_PAREN) = 1
    /\ CountType(formatter.tokens, 1, tokenTypes.OPEN_PAREN) = 1
    /\ formatter.tokens[1].type = tokenTypes.LINE_COMMENT
    /\ result # << >>

\* the operators of more than one character
MultiCharacterOperators ==
    { << "!", "=" >>, << "<", ">" >>, << "=", "=" >>, << "<", "=" >>, << ">", "=" >>,
      << "!", "<" >>, << "!", ">" >>, << "|", "|" >>, << ":", ":" >>,
      << "-", ">", ">" >>, << "-", ">" >>, << "~", "~", "*" >>, << "~", "~" >>,
      << "!", "~", "~", "*" >>, << "!", "~", "~" >>, << "~", "*" >>,
      << "!", "~", "*" >>, << "!", "~" >> }

\* C4: every iteration of tokenize yields a token with a non-empty value
\* taken from the front of the remaining input, so that the tokens so far
\* followed by the remaining input are the query and the loop ends; an
\* operator token is one of the fixed operators of several characters when
\* the input starts with one, and a single character otherwise.
C4_TokenizeProgress ==
    /\ [](pc # "failed")
    /\ []((pc = "tokenize" /\ tokens # << >>) =>
             /\ token = tokens[Len(tokens)]
             /\ token.type # Undefined
             /\ Len(token.value) >= 1
             /\ ValuesFrom(tokens, 1) \o input = query)
    /\ []((pc = "tokenize" /\ token.type = tokenTypes.OPERATOR) =>
             \/ token.value \in MultiCharacterOperators
             \/ /\ Len(token.value) = 1
                /\ \A o \in MultiCharacterOperators :
                      ~StartsWithAt(token.value \o input, 1, o))
    /\ (pc = "tokenize" ~> pc = "format")

\* tokenize has produced an operator token of two characters and goes on
C4_Witness ==
    /\ pc = "tokenize"
    /\ token.type = tokenTypes.OPERATOR
    /\ Len(token.value) = 2
    /\ input # << >>

\* C4 as stated: the operator token an input falls through to is a single
\* character.
C4_SingleCharacterOperator ==
    (pc = "tokenize" /\ token.type = tokenTypes.OPERATOR) => Len(token.value) = 1

\* whether toks has as many open-paren tokens as close-paren tokens
Balanced(toks) ==
    CountType(toks, 1, tokenTypes.OPEN_PAREN) = CountType(toks, 1, tokenTypes.CLOSE_PAREN)

\* C5: the output of format has as many open-paren tokens as close-paren
\* tokens if and only if its input has.
C5_ParenBalance ==
    pc = "done" => (Balanced(tokenize(result)) <=> Balanced(tokenize(query)))

\* the position of the close-paren matching the open-paren at position i of
\* toks, or Len(toks) + 1 when there is none; level counts the parens open
RECURSIVE RegionEnd(_, _, _)
RegionEnd(toks, i, level) ==
    IF i > Len(toks) THEN i
    ELSE IF toks[i].type = tokenTypes.OPEN_PAREN THEN RegionEnd(toks, i + 1, level + 1)
    ELSE IF toks[i].type = tokenTypes.CLOSE_PAREN
         THEN (IF level = 1 THEN i ELSE RegionEnd(toks, i + 1, level - 1))
    ELSE RegionEnd(toks, i + 1, level)

\* the length of the region from position i to position j on one line
RECURSIVE RegionLength(_, _, _)
RegionLength(toks, i, j) ==
    IF i > j \/ i > Len(toks) THEN 0
    ELSE Len(toks[i].value) + RegionLength(toks, i + 1, j)

\* whether the region opened at position i may not be rendered inline
MustNotBeInline(toks, i) ==
    LET j == RegionEnd(toks, i, 0)
    IN  \/ RegionLength(toks, i, j) > INLINE_MAX_LENGTH
        \/ \E k \in (i + 1)..(j - 1) :
              \/ toks[k].type \in { tokenTypes.RESERVED_TOPLEVEL, tokenTypes.RESERVED_NEWLINE,
                                    tokenTypes.LINE_COMMENT, tokenTypes.BLOCK_COMMENT }
              \/ toks[k].value = << ";" >>

\* C6: an inline block is not begun at an open-paren whose region is longer
\* than 200 characters or holds a top-level reserved word, a newline
\* reserved word, a line comment, a block comment or a semicolon.
C6_NoForbiddenInline ==
    (rule = "open-paren" /\ before.inlineBlock = 0 /\ formatter.inlineBlock = 1)
        => ~MustNotBeInline(before.tokens, index)

\* whether the text after the last comma of s holds a newline
NewlineAfterLastComma(s) ==
    \E k \in DOMAIN s :
        /\ s[k] = ","
        /\ \A j \in (k + 1)..Len(s) : s[j] # ","
        /\ \E j \in (k + 1)..Len(s) : s[j] = "\n"

\* C7: when a comma has been formatted, a newline follows it if and only if
\* no inline block was active and the previous reserved word was not LIMIT;
\* `SELECT a, b, c LIMIT 10, 20` has a, b and c on lines of their own and
\* `10, 20` on the line of LIMIT.
C7_CommaRule ==
    /\ rule \in { "comma", "line-comment-comma" } =>
          (NewlineAfterLastComma(formatter.formattedQuery) <=>
              (~isActive(before.inlineBlock) /\ ~IsLimit(before.previousReservedWord)))
    /\ (pc = "done" /\ query = ScenarioLimit) =>
          result = <<"s", "e", "l", "e", "c", "t", "\n", " ", " ", "a", ",", "\n", " ", " ", "b", ",", "\n", " ", " ", "c", "\n", "l", "i", "m", "i", "t", " ", "1", "0", ",", " ", "2", "0">>

\* the comma after LIMIT 10 has been formatted outside any inline block,
\* after the commas of the field list
C7_Witness ==
    /\ pc = "format"
    /\ query = ScenarioLimit
    /\ rule = "comma"
    /\ IsLimit(before.previousReservedWord)
    /\ ~isActive(before.inlineBlock)
    /\ ~NewlineAfterLastComma(formatter.formattedQuery)

\* C8: `SELECT a, b FROM t WHERE x = 1` is formatted as the keyword SELECT on
\* a line, `a,` and `b` on lines indented by two spaces, `FROM t` on a line
\* and `WHERE x = 1` on a line, the tokens of a line one space apart.
C8_Scenario1 ==
    (pc = "done" /\ query = Scenario1) =>
        toLowerCase(result) = <<"s", "e", "l", "e", "c", "t", "\n", " ", " ", "a", ",", "\n", " ", " ", "b", "\n", "f", "r", "o", "m", " ", "t", "\n", "w", "h", "e", "r", "e", " ", "x", " ", "=", " ", "1">>

\* C9: `:name` formatted by a caller holding the parameters {name: "'x'"}
\* gives `'x'`.
C9_NamedPlaceholder ==
    (pc = "done" /\ query = ScenarioPlaceholder /\ supplied.given) =>
        result = << "'", "x", "'" >>

\* C10: get returns the raw token value when no parameter source was
\* supplied; otherwise the value under the key of the token when it has a
\* non-empty key; otherwise the value at the cursor, which is then one
\* larger.  The cursor changes only in the third case and never decreases.
C10_ParamsGet ==
    asked # NoToken =>
        /\ ~paramsBefore.params.given =>
              /\ got = JsString(asked.value)
              /\ paramsObject.index = paramsBefore.index
        /\ (paramsBefore.params.given /\ KeyOf(asked) # << >>) =>
              /\ got = LookupKey(paramsBefore.params, KeyOf(asked))
              /\ paramsObject.index = paramsBefore.index
        /\ (paramsBefore.params.given /\ KeyOf(asked) = << >>) =>
              /\ got = LookupIndex(paramsBefore.params, paramsBefore.index)
              /\ paramsObject.index = paramsBefore.index + 1
        /\ paramsObject.index >= paramsBefore.index
        /\ paramsObject.params = paramsBefore.params

\* the second positional value has been handed out after a keyed lookup in
\* between left the cursor alone
C10_Witness ==
    /\ paramsBefore.params.given
    /\ KeyOf(asked) = << >>
    /\ paramsBefore.index = 1
    /\ paramsObject.index = 2
    /\ got = JsString(<< "b" >>)

\* the Formatter after the callback has visited the tokens from position i on
RECURSIVE FormatFrom(_, _)
FormatFrom(f, i) ==
    IF i > Len(f.tokens) THEN f ELSE FormatFrom(FormatTokenAt(f, i), i + 1)

\* what format(q) returns when it is the first call of a fresh process
FormatFresh(q) == trim(FormatFrom(NewFormatter(tokenize(q)), 1).formattedQuery)

\* C11: calls are independent.  Whatever calls came before, a call starts
\* from a Formatter, Indentation, inline block, Params cursor,
\* previousReservedWord and token list that hold nothing of an earlier call,
\* the pass starts from the tokens of its own query only, and the call
\* returns what the first call of a fresh process returns for its query.
C11_CallIndependence ==
    /\ (pc = "tokenize" /\ tokens = << >>) => formatter = NewFormatter(<< >>)
    /\ (pc = "format" /\ index = 0) => formatter = NewFormatter(tokenize(query))
    /\ pc = "done" => result = FormatFresh(query)

\* a second call has returned, on a query other than the first one, after a
\* first call that ended with the whitespace flag set by a `;`
C11_Witness ==
    /\ pc = "done"
    /\ callNo = 2
    /\ query # firstQuery
    /\ \E i \in 1..Len(firstQuery) : firstQuery[i] = ";"
    /\ Truthy(getWhiteSpace(formatter.indentation))

\* C12: the Tokenizer is constructed at most once, by the first call: before
\* the first call there is none, and from the first call on the module
\* variable holds the instance the first call constructed, whatever calls
\* and steps have followed.
C12_TokenizerMemoized ==
    /\ callNo = 0 => tokenizer = NoTokenizer
    /\ callNo >= 1 => tokenizer = NewTokenizer(1)

\* a second call has tokenized its query and returned with the Tokenizer of
\* the first call
C12_Witness ==
    /\ callNo = 2
    /\ pc = "done"
    /\ Len(tokens) > 1
    /\ tokenizer.constructedIn = 1

\* C13: each of the trim-end and start-new-line flags is one-shot: a read
\* returns false exactly when the flag was armed since it was last read (or
\* since construction) and true otherwise, and leaves the flag unarmed; in
\* particular the first read of a freshly constructed Indentation that was
\* never armed returns true.
C13_OneShotFlags ==
    /\ called = "getTrimEnd" =>
          /\ returned = JsBoolean(~armed.before.trimEnd)
          /\ indentationObject.toTrimEnd = "true"
    /\ called = "getStartNewLine" =>
          /\ returned = JsBoolean(~armed.before.startNewLine)
          /\ indentationObject.toStartNewLine = "true"

\* the positions of the block-level markers of an indent stack
BlockMarkers(types) ==
    { k \in 1..Len(types) : types[k] = INDENT_TYPE_BLOCK_LEVEL }

\* the part of an indent stack strictly below its topmost block-level
\* marker; the empty stack when it holds none
BelowTopmostBlock(types) ==
    IF BlockMarkers(types) = {} THEN << >>
    ELSE SubSeq(types, 1,
                (CHOOSE k \in BlockMarkers(types) :
                    \A j \in BlockMarkers(types) : j <= k) - 1)

\* C14: after decreaseBlockLevel the indent stack is the part of the stack
\* before the call strictly below its topmost block-level marker (that
\* marker and the top-level markers above it are gone, the markers below it
\* are as they were), and the empty stack when it held no block-level marker.
C14_DecreaseBlockLevel ==
    called = "decreaseBlockLevel" =>
        indentationObject.indentTypes =
            BelowTopmostBlock(indentationBefore.indentTypes)

\* decreaseBlockLevel has removed a block-level marker and the top-level
\* marker above it, and left the top-level marker below it
C14_Witness ==
    /\ called = "decreaseBlockLevel"
    /\ indentationBefore.indentTypes =
          << INDENT_TYPE_TOP_LEVEL, INDENT_TYPE_BLOCK_LEVEL, INDENT_TYPE_TOP_LEVEL >>
    /\ indentationObject.indentTypes = << INDENT_TYPE_TOP_LEVEL >>

\* C15: unbalanced parentheses are tolerated.  No call fails; a close-paren
\* or a `;` formatted on an empty indent stack (decreaseBlockLevel) and a
\* union keyword formatted on an empty indent stack (decreaseTopLevel) leave
\* the stack empty; and every pass over the tokens, whatever its
\* parentheses, runs to its end and the call returns.
C15_UnbalancedTolerated ==
    /\ [](pc # "failed")
    /\ []((/\ rule \in { "close-paren", "semicolon", "union-words" }
           /\ before.indentation.indentTypes = << >>)
          => formatter.indentation.indentTypes = << >>)
    /\ [](Len(formatter.indentation.indentTypes) >= 0)
    /\ (pc = "format" ~> pc = "done")

\* a call whose query holds more close-parens than open-parens has returned,
\* its last close-paren formatted on an empty indent stack
C15_Witness ==
    /\ pc = "done"
    /\ CountType(tokens, 1, tokenTypes.CLOSE_PAREN)
          > CountType(tokens, 1, tokenTypes.OPEN_PAREN)
    /\ rule = "close-paren"
    /\ ~isActive(before.inlineBlock)
    /\ before.indentation.indentTypes = << >>

\* whitespace emission is disabled after the first i tokens of toks: the last
\* of them that is a `;` or a newline-reserved word starting with SET or
\* ADD JAR is such a word
RECURSIVE WhiteSpaceDisabled(_, _)
WhiteSpaceDisabled(toks, i) ==
    IF i = 0 THEN FALSE
    ELSE IF RuleOf(toks[i]) = "semicolon" THEN FALSE
    ELSE IF /\ RuleOf(toks[i]) = "reserved-newline"
            /\ DisablesWhiteSpace(toks[i].value) THEN TRUE
    ELSE WhiteSpaceDisabled(toks, i - 1)

\* C16: a default token (word, operator, number, string) formatted while no
\* SET or ADD JAR was formatted since the start of the call or since the
\* last `;` is appended to the output as it is, followed by one space; so
\* are the first tokens of a call.
C16_DefaultTokenSpace ==
    (rule = "default" /\ ~WhiteSpaceDisabled(formatter.tokens, index - 1)) =>
        formatter.formattedQuery =
            before.formattedQuery \o formatter.tokens[index].value \o << " " >>

\* newline suppression was requested before position i + 1 of toks: a
\* BETWEEN lies among the first i tokens with no newline-reserved word
\* after it
RECURSIVE SuppressionRequested(_, _)
SuppressionRequested(toks, i) ==
    IF i = 0 THEN FALSE
    ELSE IF RuleOf(toks[i]) = "reserved-newline" THEN FALSE
    ELSE IF RuleOf(toks[i]) = "reserved" /\ IsBetween(toks[i].value) THEN TRUE
    ELSE SuppressionRequested(toks, i - 1)

\* the output ends with text, and text is the first thing on its line after
\* the indentation indent
StartsNewLine(formattedQuery, indent, text) ==
    LET tl == << "\n" >> \o indent \o text
    IN  /\ Len(formattedQuery) >= Len(tl)
        /\ SubSeq(formattedQuery, Len(formattedQuery) - Len(tl) + 1,
                  Len(formattedQuery)) = tl

\* the text a newline-reserved word is emitted as
NewlineWordText(t) == equalizeWhitespace(toLowerCase(t.value)) \o << " " >>

\* C17: a newline-reserved word formatted while no BETWEEN was formatted
\* since the newline-reserved word before it (or since the start of the
\* call) is put on a new line: a newline and the indentation precede it in
\* the output.
C17_NewlineReservedWord ==
    (/\ rule = "reserved-newline"
     /\ ~SuppressionRequested(formatter.tokens, index - 1)) =>
        StartsNewLine(formatter.formattedQuery,
                      getIndent(formatter.indentation),
                      NewlineWordText(formatter.tokens[index]))

\* the position of the last newline-reserved word among the first i tokens
\* of toks, 0 when there is none
RECURSIVE PreviousNewlineWord(_, _)
PreviousNewlineWord(toks, i) ==
    IF i = 0 THEN 0
    ELSE IF RuleOf(toks[i]) = "reserved-newline" THEN i
    ELSE PreviousNewlineWord(toks, i - 1)

\* C18: BETWEEN suppresses the newline of exactly one newline-reserved word.
\* The first newline-reserved word formatted after a BETWEEN, whatever
\* tokens lie in between, is appended to the output as it stands, with no
\* newline added; the newline-reserved word after that one, when no other
\* BETWEEN came in between, is put on a new line.
C18_BetweenSuppressesOne ==
    rule = "reserved-newline" =>
        LET toks == formatter.tokens
            j    == PreviousNewlineWord(toks, index - 1)
            text == NewlineWordText(toks[index])
        IN  /\ SuppressionRequested(toks, index - 1) =>
                  formatter.formattedQuery = before.formattedQuery \o text
            /\ (/\ j > 0
                /\ SuppressionRequested(toks, j - 1)
                /\ ~SuppressionRequested(toks, index - 1)) =>
                  StartsNewLine(formatter.formattedQuery,
                                getIndent(formatter.indentation), text)

\* the second newline-reserved word after a BETWEEN has been put on a new
\* line, the first one, a `;` away from the BETWEEN, having used up the
\* suppression
C18_Witness ==
    /\ rule = "reserved-newline"
    /\ LET toks == formatter.tokens
           j    == PreviousNewlineWord(toks, index - 1)
       IN  /\ j > 0
           /\ SuppressionRequested(toks, j - 1)
           /\ ~SuppressionRequested(toks, index - 1)
           /\ \E k \in 1..j : RuleOf(toks[k]) = "semicolon"
           /\ StartsNewLine(formatter.formattedQuery,
                            getIndent(formatter.indentation),
                            NewlineWordText(toks[index]))

\* C19: the whitespace flag is persistent.  A callback changes it only by
\* formatting a newline-reserved word whose value starts with SET or
\* ADD JAR, which leaves it false, or by formatting a `;`, which leaves it
\* true; every other rule, and every read, leaves it as it was.  So each
\* default token between a SET or ADD JAR and the next `;` is appended to the
\* output with no space after it.
C19_WhiteSpacePersistent ==
    rule # "none" =>
        LET t   == formatter.tokens[index]
            was == getWhiteSpace(before.indentation)
            now == getWhiteSpace(formatter.indentation)
            set == rule = "reserved-newline" /\ DisablesWhiteSpace(t.value)
        IN  /\ set => now = "false"
            /\ rule = "semicolon" => now = "true"
            /\ (~set /\ rule # "semicolon") => now = was
            /\ (rule = "default" /\ WhiteSpaceDisabled(formatter.tokens, index - 1)) =>
                  formatter.formattedQuery = before.formattedQuery \o t.value

\* the second default token after a SET has been appended with no space
\* after it, the flag having been true before the SET and false since
C19_Witness ==
    /\ rule = "default"
    /\ index > 2
    /\ RuleOf(formatter.tokens[index - 2]) = "default"
    /\ WhiteSpaceDisabled(formatter.tokens, index - 3)
    /\ \E k \in 1..index : RuleOf(formatter.tokens[k]) = "semicolon"
    /\ getWhiteSpace(before.indentation) = "false"
    /\ getWhiteSpace(formatter.indentation) = "false"
    /\ formatter.formattedQuery = before.formattedQuery \o formatter.tokens[index].value

\* what each recognizer gives at the front of s, in the order whitespace,
\* line comment, block comment, string, open-paren, close-paren, number, the
\* reserved-word family (top-level, top-level-inline, newline, plain, union;
\* the family gives nothing right after a `.` token), word, operator
Recognized(s, prev) ==
    LET family(t) == IF prev.value = << "." >> THEN NoToken ELSE t
    IN  << getWhitespaceToken(s),
           getLineCommentToken(s),
           getBlockCommentToken(s),
           getStringToken(s),
           getOpenParenToken(s),
           getCloseParenToken(s),
           getNumberToken(s),
           family(getToplevelReservedToken(s)),
           family(getToplevelInLineReservedToken(s)),
           family(getNewlineReservedToken(s)),
           family(getPlainReservedToken(s)),
           family(getUnionWordsToken(s)),
           getWordToken(s),
           getOperatorToken(s) >>

\* the first of a sequence of recognizer results that is a token
FirstRecognized(r) ==
    IF \A k \in 1..Len(r) : r[k] = NoToken THEN NoToken
    ELSE r[CHOOSE k \in 1..Len(r) :
               r[k] # NoToken /\ \A j \in 1..(k - 1) : r[j] = NoToken]

\* the type a token must have when its text is one of the keywords listed
\* in several tables, or CASE or END
TypeByPrecedence(value) ==
    LET w == toLowerCase(value)
    IN  IF w \in { << "w", "h", "e", "n" >>, << "e", "l", "s", "e" >> }
             THEN tokenTypes.RESERVED_NEWLINE
        ELSE IF w = << "m", "o", "d", "i", "f", "y" >>
             THEN tokenTypes.RESERVED_TOPLEVEL
        ELSE IF w = << "u", "s", "e" >>
             THEN tokenTypes.RESERVED_TOPLEVEL_INLINE
        ELSE IF w = << "c", "a", "s", "e" >> THEN tokenTypes.OPEN_PAREN
        ELSE IF w = << "e", "n", "d" >> THEN tokenTypes.CLOSE_PAREN
        ELSE Undefined

\* C20: each token the tokenizer appends is what the first matching
\* recognizer, in the fixed order, gives at the front of the input that
\* remained; so a token whose text is WHEN or ELSE is newline-reserved,
\* MODIFY top-level, USE top-level-inline, CASE an open-paren and END a
\* close-paren, unless it follows a `.` token.
C20_TokenizerPrecedence ==
    (pc = "tokenize" /\ tokens # << >>) =>
        LET previousTok == IF Len(tokens) > 1 THEN tokens[Len(tokens) - 1]
                           ELSE NoToken
            remained == token.value \o input
        IN  /\ token = tokens[Len(tokens)]
            /\ token = FirstRecognized(Recognized(remained, previousTok))
            /\ (/\ TypeByPrecedence(token.value) # Undefined
                /\ previousTok.value # << "." >>) =>
                  token.type = TypeByPrecedence(token.value)

\* the tokenizer has appended a WHEN, which both the newline-reserved and the
\* plain reserved recognizer match, as a newline-reserved token
C20_Witness ==
    /\ pc = "tokenize"
    /\ tokens # << >>
    /\ toLowerCase(token.value) = << "w", "h", "e", "n" >>
    /\ token.type = tokenTypes.RESERVED_NEWLINE
    /\ getPlainReservedToken(token.value \o input) # NoToken
    /\ getWordToken(token.value \o input) # NoToken

\* a keyword is at the front of s: none of the recognizers tried before the
\* reserved-word family accepts s, and one of the five keyword tables does
KeywordAtFront(s) ==
    /\ \A k \in 1..7 : Recognized(s, NoToken)[k] = NoToken
    /\ \E k \in 8..12 : Recognized(s, NoToken)[k] # NoToken

\* C21: a token that directly follows a token `.` is never of a
\* reserved-word type: a keyword there is lexed as a word.  Only the token
\* directly before counts: a keyword after any other token, a whitespace
\* token after a `.` included, is lexed as a token of a reserved-word type.
C21_NoKeywordAfterDot ==
    (pc = "tokenize" /\ tokens # << >>) =>
        LET previousTok == IF Len(tokens) > 1 THEN tokens[Len(tokens) - 1]
                           ELSE NoToken
            remained == token.value \o input
        IN  /\ previousTok.value = << "." >> =>
                  /\ token.type \notin KeywordTypes
                  /\ KeywordAtFront(remained) => token.type = tokenTypes.WORD
            /\ (previousTok.value # << "." >> /\ KeywordAtFront(remained)) =>
                  token.type \in KeywordTypes

\* `a.from b. from c` has been tokenized: the FROM directly after the `.` is
\* a word, the FROM a whitespace token away from the `.` is a
\* top-level-inline reserved word
C21_Witness ==
    /\ pc = "tokenize"
    /\ input = << >>
    /\ \E k \in 2..Len(tokens) :
          /\ tokens[k - 1].value = << "." >>
          /\ tokens[k] = [ type |-> tokenTypes.WORD, value |-> << "f", "r", "o", "m" >> ]
    /\ \E k \in 3..Len(tokens) :
          /\ tokens[k - 2].value = << "." >>
          /\ tokens[k - 1].type = tokenTypes.WHITESPACE
          /\ tokens[k] = [ type |-> tokenTypes.RESERVED_TOPLEVEL_INLINE,
                           value |-> << "f", "r", "o", "m" >> ]

\* the number of tokens of toks from position i on whose value is value
RECURSIVE CountValue(_, _, _)
CountValue(toks, i, value) ==
    IF i > Len(toks) THEN 0
    ELSE (IF toks[i].value = value THEN 1 ELSE 0) + CountValue(toks, i + 1, value)

\* text ends with tl
EndsWith(text, tl) ==
    /\ Len(text) >= Len(tl)
    /\ SubSeq(text, Len(text) - Len(tl) + 1, Len(text)) = tl

\* C22: when the callback visits a line comment whose next non-whitespace
\* token is a comma, the two tokens change places in the token sequence and
\* nothing else in it changes, and the callback formats the comma, as the
\* comma rule does, in place of the comment.  The comment is formatted when
\* the callback comes to the place the comma had, so the output holds the
\* comma before the comment; the sequence keeps its length, its commas and
\* its comments, and each place is visited once.
C22_CommentCommaSwap ==
    /\ rule = "line-comment-comma" =>
          LET j == followNonWhitespaceTokenIndex(before, index).index
              swapped == [ before EXCEPT !.tokens[index] = before.tokens[j],
                                         !.tokens[j] = before.tokens[index] ]
          IN  /\ before.tokens[index].type = tokenTypes.LINE_COMMENT
              /\ before.tokens[j].value = << "," >>
              /\ formatter.tokens = swapped.tokens
              /\ formatter = formatComma(swapped, index, before.tokens[j],
                                         before.formattedQuery)
    /\ (rule = "line-comment" /\ tokens[index].value = << "," >>) =>
          /\ before.tokens[index].type = tokenTypes.LINE_COMMENT
          /\ EndsWith(trimEnd(before.formattedQuery), << "," >>)
          /\ \E k \in 1..Len(formatter.formattedQuery) :
                /\ k > Len(trimEnd(before.formattedQuery))
                /\ StartsWithAt(formatter.formattedQuery, k,
                                trimEnd(formatter.tokens[index].value))
    /\ pc \in { "format", "done" } =>
          /\ Len(formatter.tokens) = Len(tokens)
          /\ CountValue(formatter.tokens, 1, << "," >>) = CountValue(tokens, 1, << "," >>)
          /\ CountType(formatter.tokens, 1, tokenTypes.LINE_COMMENT)
                = CountType(tokens, 1, tokenTypes.LINE_COMMENT)

\* a comment has been formatted at the place a comma had in the input, after
\* the comma was formatted at the place of the comment
C22_Witness ==
    /\ rule = "line-comment"
    /\ tokens[index].value = << "," >>
    /\ formatter.tokens[index].type = tokenTypes.LINE_COMMENT
    /\ \E k \in 1..(index - 1) :
          /\ tokens[k].type = tokenTypes.LINE_COMMENT
          /\ formatter.tokens[k].value = << "," >>

\* the length of the comment marker a comment starts with: `#` is one
\* character, `--` and `/*` are two
MarkerLength(value) == IF At(value, 1) = "#" THEN 1 ELSE 2

\* the comment with one space directly after its marker: the comment itself
\* when the space is there, else the comment with the space put in
WithSpaceAfterMarker(value) ==
    LET n == MarkerLength(value)
    IN  IF At(value, n + 1) = " " THEN value
        ELSE SubSeq(value, 1, n) \o << " " >> \o SubSeq(value, n + 1, Len(value))

\* C23: a line comment or block comment is emitted with one space directly
\* after its marker, whichever of `--`, `#` and `/*` it is: the space is put
\* in when it is missing and the comment is left as it is when the space is
\* there, so that normalizing what was emitted changes nothing.
C23_CommentSpace ==
    rule \in { "line-comment", "block-comment" } =>
        LET value == before.tokens[index].value
            emitted == formatter.tokens[index].value
        IN  /\ emitted = WithSpaceAfterMarker(value)
            /\ NormalizeComment(emitted) = emitted
            /\ \E k \in 1..Len(formatter.formattedQuery) :
                  StartsWithAt(formatter.formattedQuery, k,
                      trimEnd(indentComment(formatter, WithSpaceAfterMarker(value))))

\* a text as a forced newline may leave it: as it is, or without its
\* trailing whitespace
MaybeTrimmed(text) == { text, trimEnd(text) }

\* the layout of a line comment formatted after a union keyword: the comment
\* on the line of the keyword, one space after the trimmed output
OnUnionLine(was, now, comment) == now = trimEnd(was) \o << " " >> \o comment

\* the layout with a newline forced after the comment only: the comment on
\* the current line, one space after the trimmed output
NewlineAfter(was, now, indent, comment) ==
    \E c \in MaybeTrimmed(comment) :
        now = trimEnd(was) \o << " " >> \o c \o << "\n" >> \o indent

\* the layout with newlines forced before and after the comment
NewlineBeforeAndAfter(was, now, indent, comment) ==
    \E w \in MaybeTrimmed(was), c \in MaybeTrimmed(comment) :
        now = w \o << "\n" >> \o indent \o c \o << "\n" >> \o indent

\* the layout with a newline forced before the comment
NewlineBefore(was, now, indent, comment) ==
    \E w \in MaybeTrimmed(was) :
        StartsWithAt(now, 1, w \o << "\n" >> \o indent \o trimEnd(comment))

\* C24 as the code has it: a line comment no comma follows is appended to
\* the line of a union keyword directly before it; after any other token
\* than a `;` or a line comment it is appended to the current line, one
\* space after the trimmed output, and a newline is forced after it; after a
\* `;` or a line comment newlines are forced before and after it.
C24_LineCommentLayout ==
    rule = "line-comment" =>
        LET prev    == previousNonWhitespaceToken(before, index)
            was     == before.formattedQuery
            now     == formatter.formattedQuery
            indent  == getIndent(formatter.indentation)
            comment == formatter.tokens[index].value
        IN  IF prev.type = tokenTypes.UNION_WORDS
            THEN OnUnionLine(was, now, comment)
            ELSE IF prev.value # << ";" >> /\ prev.type # tokenTypes.LINE_COMMENT
            THEN NewlineAfter(was, now, indent, comment)
            ELSE NewlineBeforeAndAfter(was, now, indent, comment)

\* a line comment has been appended to the line of the word before it
C24_Witness ==
    /\ rule = "line-comment"
    /\ previousNonWhitespaceToken(before, index).type = tokenTypes.WORD
    /\ before.formattedQuery # << >>
    /\ NewlineAfter(before.formattedQuery, formatter.formattedQuery,
                    getIndent(formatter.indentation), formatter.tokens[index].value)
    /\ ~NewlineBefore(before.formattedQuery, formatter.formattedQuery,
                      getIndent(formatter.indentation), formatter.tokens[index].value)

\* C24 as stated: a line comment no comma follows is appended to the line of
\* a union keyword directly before it; after any other token than a `;` or a
\* line comment a newline is forced before it; after a `;` or a line comment
\* newlines are forced before and after it.
C24_NewlineBeforeComment ==
    rule = "line-comment" =>
        LET prev    == previousNonWhitespaceToken(before, index)
            was     == before.formattedQuery
            now     == formatter.formattedQuery
            indent  == getIndent(formatter.indentation)
            comment == formatter.tokens[index].value
        IN  IF prev.type = tokenTypes.UNION_WORDS
            THEN OnUnionLine(was, now, comment)
            ELSE IF prev.value # << ";" >> /\ prev.type # tokenTypes.LINE_COMMENT
            THEN NewlineBefore(was, now, indent, comment)
            ELSE NewlineBeforeAndAfter(was, now, indent, comment)

\* what formatting a union word does to the output, the indent stack and the
\* trim-end flag: two newlines, the first followed by the indent before the
\* dedent and the second by the indent after it, the lowercased keyword and
\* a newline; at most the top marker popped, and only a top-level one; the
\* trim-end suppression armed
UnionWordFormatted ==
    LET was == before.indentation.indentTypes
        now == formatter.indentation.indentTypes
    IN  /\ formatter.formattedQuery =
              before.formattedQuery
                  \o << "\n" >> \o getIndent(before.indentation)
                  \o << "\n" >> \o getIndent(formatter.indentation)
                  \o toLowerCase(formatter.tokens[index].value) \o << "\n" >>
        /\ now = IF was # << >> /\ was[Len(was)] = INDENT_TYPE_TOP_LEVEL
                 THEN SubSeq(was, 1, Len(was) - 1) ELSE was
        /\ formatter.indentation.toTrimEnd = "false"

\* the callback has formatted the first token that is not whitespace after a
\* union word
AfterUnionWord ==
    /\ rule \notin { "none", "whitespace" }
    /\ previousNonWhitespaceToken(before, index).type = tokenTypes.UNION_WORDS

\* the output received a newline directly after the newline that ended the
\* line of the union keyword: a blank line follows the keyword
BlankLineAfterUnion ==
    /\ EndsWith(before.formattedQuery, << "\n" >>)
    /\ StartsWithAt(formatter.formattedQuery, 1, before.formattedQuery \o << "\n" >>)

WithoutTopLevelTop(indentTypes) ==
    IF indentTypes # << >> /\ indentTypes[Len(indentTypes)] = INDENT_TYPE_TOP_LEVEL
    THEN SubSeq(indentTypes, 1, Len(indentTypes) - 1)
    ELSE indentTypes

\* C26: formatting a top-level reserved word pops the top marker only if it
\* is top-level, forces a newline before the keyword (after an open-paren
\* the keyword stays on the line of the paren, one space after it), pushes
\* exactly one top-level marker, emits the lowercased keyword and forces a
\* newline after it at the new indent; afterwards the top of the stack is a
\* top-level marker and the stack is as long as before or one longer.
C26_ToplevelReservedWord ==
    rule = "reserved-toplevel" =>
        LET was     == before.indentation.indentTypes
            now     == formatter.indentation.indentTypes
            popped  == WithoutTopLevelTop(was)
            keyword == equalizeWhitespace(toLowerCase(formatter.tokens[index].value))
            tl      == keyword \o << "\n" >> \o getIndent(formatter.indentation)
        IN  /\ now = Append(popped, INDENT_TYPE_TOP_LEVEL)
            /\ Len(now) - Len(was) \in { 0, 1 }
            /\ now[Len(now)] = INDENT_TYPE_TOP_LEVEL
            /\ IF previousNonWhitespaceToken(before, index).type # tokenTypes.OPEN_PAREN
               THEN \E w \in MaybeTrimmed(before.formattedQuery) :
                       formatter.formattedQuery =
                           w \o << "\n" >>
                             \o getIndent([ before.indentation EXCEPT !.indentTypes = popped ])
                             \o tl
               ELSE formatter.formattedQuery =
                       trimEnd(before.formattedQuery) \o << " " >> \o tl

\* a top-level reserved word has been formatted that replaced the top-level
\* marker of the one before it, after one that was formatted directly after
\* an open-paren and kept on the line of the paren
C26_Witness ==
    /\ rule = "reserved-toplevel"
    /\ previousNonWhitespaceToken(before, index).type # tokenTypes.OPEN_PAREN
    /\ before.indentation.indentTypes = << INDENT_TYPE_TOP_LEVEL >>
    /\ formatter.indentation.indentTypes = << INDENT_TYPE_TOP_LEVEL >>
    /\ \E k \in 1..(index - 1) :
          /\ formatter.tokens[k].type = tokenTypes.RESERVED_TOPLEVEL
          /\ previousNonWhitespaceToken(formatter, k).type = tokenTypes.OPEN_PAREN

\* the open-paren formatted last follows a top-level-inline keyword, or is
\* CASE and follows a comma
AfterInlineKeywordOrComma ==
    \/ previousNonWhitespaceToken(before, index).type = tokenTypes.RESERVED_TOPLEVEL_INLINE
    \/ /\ previousNonWhitespaceToken(before, index).value = << "," >>
       /\ toLowerCase(formatter.tokens[index].value) = << "c", "a", "s", "e" >>

\* C27: an open-paren after a top-level-inline keyword, or CASE after a
\* comma, gets a newline forced before it and pushes a block-level marker
\* whether or not an inline block is active; any other open-paren is
\* appended after the output, trimmed unless the token before it is
\* whitespace, an open-paren or a line comment, the inline classification is
\* attempted, and a block-level marker is pushed and a newline forced after
\* the paren if and only if no inline block is active afterwards.
C27_OpenParenRule ==
    rule = "open-paren" =>
        LET was   == before.formattedQuery
            now   == formatter.formattedQuery
            value == formatter.tokens[index].value
            pushed == Append(before.indentation.indentTypes, INDENT_TYPE_BLOCK_LEVEL)
        IN  IF AfterInlineKeywordOrComma
            THEN /\ \E w \in MaybeTrimmed(was) :
                       now = w \o << "\n" >> \o getIndent(before.indentation) \o value
                 /\ formatter.indentation.indentTypes = pushed
                 /\ formatter.inlineBlock = before.inlineBlock
            ELSE LET q == (IF previousToken(before, index, 1).type \in
                                 { tokenTypes.WHITESPACE, tokenTypes.OPEN_PAREN,
                                   tokenTypes.LINE_COMMENT }
                           THEN was ELSE trimEnd(was)) \o value
                 IN  /\ formatter.inlineBlock =
                            beginIfPossible(before.inlineBlock, before.tokens, index)
                     /\ IF formatter.inlineBlock > 0
                        THEN /\ formatter.indentation.indentTypes =
                                    before.indentation.indentTypes
                             /\ now = q
                        ELSE /\ formatter.indentation.indentTypes = pushed
                             /\ now = q \o << "\n" >> \o getIndent(formatter.indentation)

\* CASE has been formatted after a comma inside an inline block: it is on a
\* new line and has pushed a block-level marker while the inline block is
\* active
C27_Witness ==
    /\ rule = "open-paren"
    /\ AfterInlineKeywordOrComma
    /\ before.inlineBlock > 0
    /\ formatter.inlineBlock > 0
    /\ Len(formatter.indentation.indentTypes) = Len(before.indentation.indentTypes) + 1
    /\ \E k \in 1..(index - 1) : formatter.tokens[k].type = tokenTypes.OPEN_PAREN

\* C28: InlineBlock.beginIfPossible is called once at every open-paren token
\* that is formatted, those after a top-level-inline keyword and CASE after
\* a comma included, and at no other token: the inline-block level after an
\* open-paren is the level beginIfPossible makes of the level before it, and
\* no other token raises the level.
C28_BeginAtEveryOpenParen ==
    /\ rule = "open-paren" =>
          formatter.inlineBlock = beginIfPossible(before.inlineBlock, before.tokens, index)
    /\ rule \notin { "none", "open-paren" } => formatter.inlineBlock <= before.inlineBlock

\* C29: a close-paren formatted while an inline block is active lowers the
\* inline-block level by one, leaves the indent stack as it was and is
\* emitted after the trimmed output, followed by a single space; a
\* close-paren formatted while none is active leaves the level as it was,
\* has decreaseBlockLevel applied to the stack and is emitted after a
\* newline and the decreased indent.
C29_CloseParenRule ==
    rule = "close-paren" =>
        LET was   == before.formattedQuery
            now   == formatter.formattedQuery
            value == formatter.tokens[index].value
        IN  IF before.inlineBlock > 0
            THEN /\ formatter.inlineBlock = before.inlineBlock - 1
                 /\ formatter.indentation.indentTypes = before.indentation.indentTypes
                 /\ \E nl \in { << >>, << "\n" >> } :
                       now = trimEnd(was) \o nl \o value \o << " " >>
            ELSE /\ formatter.inlineBlock = before.inlineBlock
                 /\ formatter.indentation.indentTypes =
                        BelowTopmostBlock(before.indentation.indentTypes)
                 /\ \E w \in MaybeTrimmed(was), sp \in { << >>, << " " >> } :
                       now = w \o << "\n" >> \o getIndent(formatter.indentation)
                               \o value \o sp

\* a close-paren has been formatted that ended an inline block inside an
\* open block: the level went from 1 to 0 and the block-level marker is
\* still on the stack
C29_Witness ==
    /\ rule = "close-paren"
    /\ before.inlineBlock = 1
    /\ formatter.inlineBlock = 0
    /\ BlockMarkers(formatter.indentation.indentTypes) # {}
    /\ EndsWith(formatter.formattedQuery, formatter.tokens[index].value \o << " " >>)

\* what formatting `;` does besides the indent stack: whitespace emission is
\* enabled, the `;` and a newline are appended to the output, the
\* inline-block level and previousReservedWord are as before
SemicolonFormatted ==
    /\ formatter.indentation.toSetWhiteSpace = "true"
    /\ formatter.formattedQuery = before.formattedQuery \o << ";", "\n" >>
    /\ formatter.inlineBlock = before.inlineBlock
    /\ formatter.previousReservedWord = before.previousReservedWord

\* C30 as the code has it: formatting `;` enables whitespace emission, emits
\* `;` and a newline and applies decreaseBlockLevel: the topmost block-level
\* marker is removed together with the top-level markers above it and the
\* markers below it stay on the stack, and a stack that holds no block-level
\* marker is emptied, no block-level marker being removed; the inline-block
\* level and previousReservedWord are unchanged.
C30_SemicolonRule ==
    rule = "semicolon" =>
        LET was == before.indentation.indentTypes
            now == formatter.indentation.indentTypes
        IN  /\ SemicolonFormatted
            /\ now = BelowTopmostBlock(was)
            /\ Cardinality(BlockMarkers(now)) =
                  IF BlockMarkers(was) = {} THEN 0
                  ELSE Cardinality(BlockMarkers(was)) - 1

\* a `;` has been formatted inside two open parentheses and a top-level
\* clause: the inner block-level marker and the top-level marker above it
\* are gone, the marker of the outer parenthesis is on the stack
C30_Witness ==
    /\ rule = "semicolon"
    /\ before.indentation.indentTypes =
          << INDENT_TYPE_BLOCK_LEVEL, INDENT_TYPE_BLOCK_LEVEL, INDENT_TYPE_TOP_LEVEL >>
    /\ formatter.indentation.indentTypes = << INDENT_TYPE_BLOCK_LEVEL >>
    /\ before.indentation.toSetWhiteSpace # "true"
    /\ SemicolonFormatted

\* C30 as stated: formatting `;` enables whitespace emission, emits `;` and
\* a newline and removes exactly one block-level marker together with the
\* top-level markers above it, the markers below staying on the stack; the
\* inline-block level and previousReservedWord are unchanged.
C30_OneBlockMarkerRemoved ==
    rule = "semicolon" =>
        LET was == before.indentation.indentTypes
            now == formatter.indentation.indentTypes
        IN  /\ SemicolonFormatted
            /\ Len(now) <= Len(was)
            /\ now = SubSeq(was, 1, Len(now))
            /\ Cardinality(BlockMarkers(now)) = Cardinality(BlockMarkers(was)) - 1
            /\ \A k \in (Len(now) + 2)..Len(was) : was[k] = INDENT_TYPE_TOP_LEVEL

Inlineable(toks, i) ==
    LET j == RegionEnd(toks, i, 0)
    IN  /\ j <= Len(toks)
        /\ RegionLength(toks, i, j) <= INLINE_MAX_LENGTH
        /\ \A k \in i..(j - 1) : ~isForbiddenToken(toks[k])

RECURSIVE ActiveUntil(_, _, _)
ActiveUntil(f, i, j) ==
    IF i > Len(f.tokens) THEN FALSE
    ELSE LET g == FormatTokenAt(f, i)
         IN  IF i >= j THEN g.inlineBlock = 0
             ELSE g.inlineBlock > 0 /\ ActiveUntil(g, i + 1, j)

\* C33: an inline block begun at an open-paren stays active up to the
\* matching close-paren and ends there; while it is active every open-paren
\* raises the level by one, every close-paren lowers it by one and no other
\* token changes it.
C33_InlineBlockExtent ==
    /\ (rule = "open-paren" /\ before.inlineBlock > 0)
          => formatter.inlineBlock = before.inlineBlock + 1
    /\ (rule = "close-paren" /\ before.inlineBlock > 0)
          => formatter.inlineBlock = before.inlineBlock - 1
    /\ rule \notin { "none", "open-paren", "close-paren" }
          => formatter.inlineBlock = before.inlineBlock
    /\ (rule = "open-paren" /\ before.inlineBlock = 0 /\ formatter.inlineBlock = 1)
          => ActiveUntil(formatter, index + 1, RegionEnd(formatter.tokens, index, 0))

\* the paren nesting after the first n tokens of toks: the open-parens among
\* them less the close-parens matched to one of them
RECURSIVE ParenNesting(_, _)
ParenNesting(toks, n) ==
    IF n = 0 THEN 0
    ELSE LET d == ParenNesting(toks, n - 1)
         IN  IF toks[n].type = tokenTypes.OPEN_PAREN THEN d + 1
             ELSE IF toks[n].type = tokenTypes.CLOSE_PAREN /\ d > 0 THEN d - 1
             ELSE d

\* C34: the inline-block level is never negative and never above the paren
\* nesting of the tokens formatted so far.
C34_LevelWithinNesting ==
    /\ formatter.inlineBlock \in Nat
    /\ formatter.inlineBlock <= ParenNesting(formatter.tokens, index)

\* an inline block is active at a paren nesting deeper than its level
C34_Witness ==
    /\ pc = "format"
    /\ rule = "open-paren"
    /\ formatter.inlineBlock = 1
    /\ ParenNesting(formatter.tokens, index) = 2

\* the number of newline characters of a text
Newlines(text) == Cardinality({ k \in DOMAIN text : text[k] = "\n" })

\* C35: while an inline block is active, from the token after the open-paren
\* that began it to its close-paren, no callback appends a newline to the
\* output or changes the indent stack, whatever the token.
C35_InlineOnOneLine ==
    (rule \notin { "none", "whitespace" } /\ before.inlineBlock > 0) =>
        /\ Newlines(formatter.formattedQuery) <= Newlines(before.formattedQuery)
        /\ formatter.indentation.indentTypes = before.indentation.indentTypes

IsInk(c) == c \notin WhitespaceChars

\* a text without its whitespace characters
Ink(text) == SelectSeq(text, IsInk)

\* the text of a token as the callback emits it, whitespace left out:
\* keywords lowercased
EmittedInk(t) == Ink(IF t.type \in KeywordTypes THEN toLowerCase(t.value) ELSE t.value)

\* the emitted texts of the first n tokens of toks, one after the other
RECURSIVE EmittedUpTo(_, _)
EmittedUpTo(toks, n) ==
    IF n = 0 THEN << >> ELSE EmittedUpTo(toks, n - 1) \o EmittedInk(toks[n])

IsLineComment(t) == t.type = tokenTypes.LINE_COMMENT

\* a token that is emitted and is no line comment
IsNoLineComment(t) == t.type \notin { tokenTypes.LINE_COMMENT, tokenTypes.WHITESPACE }

\* the position of the n-th line comment of toks
NthLineComment(toks, n) ==
    CHOOSE p \in DOMAIN toks :
        /\ IsLineComment(toks[p])
        /\ Cardinality({ k \in 1..p : IsLineComment(toks[k]) }) = n

\* the tokens with the whitespace of their values left out
InkOf(toks) == [ k \in DOMAIN toks |-> [ type |-> toks[k].type, value |-> Ink(toks[k].value) ] ]

\* whether visited is given with its line comments moved behind commas, and
\* the whitespace about them, that follow them in given, and nothing else
\* moved
CommentsBehindCommas(given, visited) ==
    /\ Len(visited) = Len(given)
    /\ SelectSeq(InkOf(visited), IsNoLineComment) = SelectSeq(InkOf(given), IsNoLineComment)
    /\ Len(SelectSeq(visited, IsLineComment)) = Len(SelectSeq(given, IsLineComment))
    /\ \A n \in 1..Len(SelectSeq(given, IsLineComment)) :
          LET p == NthLineComment(given, n)
              v == NthLineComment(visited, n)
          IN  /\ Ink(visited[v].value) = Ink(given[p].value)
              /\ p <= v
              /\ \A k \in (p + 1)..v :
                    \/ given[k].type = tokenTypes.WHITESPACE
                    \/ given[k].value = << "," >>

\* C36: the pass visits every token once, from left to right: whitespace
\* left aside, the output is the texts of the tokens visited so far, one
\* after the other and each once, keywords lowercased, whitespace tokens
\* adding nothing; the tokens are visited in the order of the input but for
\* line comments moved behind the commas that follow them; the call returns
\* the texts of all tokens.
C36_EveryTokenOnce ==
    /\ pc = "format" =>
          /\ index \in 0..Len(formatter.tokens)
          /\ Ink(formatter.formattedQuery) = EmittedUpTo(formatter.tokens, index)
          /\ CommentsBehindCommas(tokens, formatter.tokens)
    /\ pc = "done" =>
          /\ index = Len(formatter.tokens)
          /\ Ink(result) = EmittedUpTo(formatter.tokens, Len(formatter.tokens))
          /\ CommentsBehindCommas(tokens, formatter.tokens)

\* a call has returned in which a line comment was moved behind the comma
\* after it
C36_Witness ==
    /\ pc = "done"
    /\ \E k \in DOMAIN tokens :
          /\ IsLineComment(tokens[k])
          /\ formatter.tokens[k].value = << "," >>
    /\ result # << >>

\* C37: the indent stack never holds two top-level markers next to each
\* other, and while no open-paren has been formatted it holds one marker at
\* most.
C37_NoAdjacentTopLevel ==
    LET types == formatter.indentation.indentTypes
    IN  /\ \A k \in 1..(Len(types) - 1) :
              ~(types[k] = INDENT_TYPE_TOP_LEVEL /\ types[k + 1] = INDENT_TYPE_TOP_LEVEL)
        /\ (\A k \in 1..index : formatter.tokens[k].type # tokenTypes.OPEN_PAREN)
              => Len(types) <= 1

\* a top-level-inline word has been formatted after a top-level word and has
\* taken the place of its marker; nothing was in parentheses
C37_Witness ==
    /\ rule = "reserved-toplevel-inline"
    /\ before.indentation.indentTypes = << INDENT_TYPE_TOP_LEVEL >>
    /\ formatter.indentation.indentTypes = << INDENT_TYPE_TOP_LEVEL >>
    /\ before.previousReservedWord.type = tokenTypes.RESERVED_TOPLEVEL

\* the Formatter after the callback has visited the tokens from position i
\* to position j
RECURSIVE FormatRange(_, _, _)
FormatRange(f, i, j) ==
    IF i > j THEN f ELSE FormatRange(FormatTokenAt(f, i), i + 1, j)

\* C38: when an open-paren has pushed a block-level marker and its region
\* closes with no `;` in it, the indent stack after the matching close-paren
\* is formatted is the stack before the open-paren was formatted.
C38_IndentRestored ==
    LET toks == formatter.tokens
        j    == RegionEnd(toks, index, 0)
    IN  (/\ rule = "open-paren"
         /\ formatter.indentation.indentTypes =
                Append(before.indentation.indentTypes, INDENT_TYPE_BLOCK_LEVEL)
         /\ j <= Len(toks)
         /\ \A k \in (index + 1)..(j - 1) : toks[k].value # << ";" >>)
        => FormatRange(formatter, index + 1, j).indentation.indentTypes =
               before.indentation.indentTypes

\* the same for the open-parens formatted while no inline block is active:
\* this holds in every state
IndentRestoredOutsideInline ==
    LET toks == formatter.tokens
        j    == RegionEnd(toks, index, 0)
    IN  (/\ rule = "open-paren"
         /\ before.inlineBlock = 0
         /\ formatter.indentation.indentTypes =
                Append(before.indentation.indentTypes, INDENT_TYPE_BLOCK_LEVEL)
         /\ j <= Len(toks)
         /\ \A k \in (index + 1)..(j - 1) : toks[k].value # << ";" >>)
        => FormatRange(formatter, index + 1, j).indentation.indentTypes =
               before.indentation.indentTypes

\* the last of the first n tokens of toks that is a reserved word of one of
\* the five types, or no token
LastReservedWord(toks, n) ==
    LET at == { k \in 1..n : toks[k].type \in KeywordTypes }
    IN  IF at = {} THEN NoToken
        ELSE toks[CHOOSE k \in at : \A j \in at : j <= k]

\* C39: previousReservedWord is the reserved word formatted last, of
\* whichever of the five types, and no other token changes it; a comma
\* formatted outside inline blocks while that word is LIMIT gets no newline,
\* a `;` between the two or not.
C39_PreviousReservedWord ==
    /\ pc \in { "format", "done" } =>
          formatter.previousReservedWord = LastReservedWord(formatter.tokens, index)
    /\ (pc = "format" /\ rule \notin ({ "none", "reserved" } \cup KeywordTypes))
          => formatter.previousReservedWord = before.previousReservedWord
    /\ (/\ rule \in { "comma", "line-comment-comma" }
        /\ IsLimit(LastReservedWord(formatter.tokens, index)))
          => ~NewlineAfterLastComma(formatter.formattedQuery)

\* a comma has been formatted after a `;` that came after LIMIT, with no
\* reserved word since: previousReservedWord is still LIMIT
C39_Witness ==
    /\ rule = "comma"
    /\ IsLimit(formatter.previousReservedWord)
    /\ \E k \in 1..(index - 1) :
          /\ formatter.tokens[k].value = << ";" >>
          /\ \E j \in 1..(k - 1) : IsLimit(formatter.tokens[j])
    /\ ~NewlineAfterLastComma(formatter.formattedQuery)

====
